---- MODULE Spec2Model ----
(***************************************************************************)
(* A model of the span/layer algorithms of estnltk:                        *)
(*   - GapTagger (taggers/gaps_tagging), exercised by test_gap_tagger.py;  *)
(*   - excerpt, layers_to_keep_default and split_by                        *)
(*     (layer_operations/splitting.py);                                    *)
(*   - CompoundTokenTagger._make_layer                                     *)
(*     (taggers/text_segmentation/compound_token_tagger.py) and the        *)
(*     resolve_conflicts it calls.                                         *)
(* Text positions are 0-based as in the source; TLA+ sequences are         *)
(* 1-based, so the character at text position p is text[p + 1].           *)
(***************************************************************************)
EXTENDS Integers, Sequences, FiniteSets, TLC

\* ------------------------------------------------------------------ bounds
\* Longest text of the GapTagger runs (besides the text of the test).
MaxGapLen == 3
\* Most spans in one source layer of a GapTagger run.
MaxGapSpans == 2
\* Length of the text of the documents excerpt and split_by are applied to.
MaxLen == 3
\* Most spans in a plain layer of these documents.
MaxSpans == 2
\* Most layers of the documents layers_to_keep_default is applied to.
MaxKeepLayers == 4
\* Length of the text the layers given to resolve_conflicts lie in.
MaxResolveLen == 4
\* Most spans of a layer given to resolve_conflicts.
MaxResolveSpans == 3
\* Length of the raw text CompoundTokenTagger is applied to.
MaxTextLen == 4

\* ----------------------------------------------------------------- helpers
Max(a, b) == IF a >= b THEN a ELSE b
Min(a, b) == IF a <= b THEN a ELSE b

Range(s) == {s[i] : i \in 1..Len(s)}

\* Python's s[a:b] for 0 <= a, 0 <= b.
Slice(s, a, b) == SubSeq(s, a + 1, Min(b, Len(s)))

\* Spans are ordered by (start, end).
SpanLess(a, b) == a.start < b.start \/ (a.start = b.start /\ a.end < b.end)

\* All sequences over S of length at most n.
SeqsUpTo(S, n) == UNION {[1..k -> S] : k \in 0..n}

\* --------------------------------------------------------------- GapTagger
VARIABLES
    gt_pc,        \* "start" | "walk" | "done" | "idle"
    gt_text,      \* raw text, a sequence of one-character strings
    gt_layers,    \* the input layers, each a sequence of spans
    gt_trim,      \* TRUE: trim = str.strip; FALSE: no trim callback
    gt_decorator, \* TRUE: decorator = {'gap_length': len(t)}; FALSE: none
    gt_spans,     \* the merged, sorted span list
    gt_k,         \* number of merged spans walked so far
    gt_cursor,    \* end of the covered prefix
    gt_gaps       \* the output layer's spans

gtVars == <<gt_pc, gt_text, gt_layers, gt_trim, gt_decorator, gt_spans,
            gt_k, gt_cursor, gt_gaps>>

VARIABLES
    ex_pc,               \* "call" | "loop" | "done" | "raised" | "idle"
    ex_text,             \* text.text
    ex_layers,           \* text.list_layers()
    ex_start,
    ex_end,
    ex_layers_to_keep,   \* <<>>: None; <<S>>: the set S of layer names
    ex_trim_overlapping,
    ex_i,                \* number of layers the loop has gone through
    ex_new_text,         \* new_text: [text, layers]
    ex_map_spans,        \* map_spans: key of an old span -> new span
    ex_sp,               \* the local variable sp: a key, or NoKey if unbound
    ex_error,            \* the exception raised, or None
    ex_result            \* <<>>: nothing returned; <<doc>>: the returned text

exVars == <<ex_pc, ex_text, ex_layers, ex_start, ex_end, ex_layers_to_keep,
            ex_trim_overlapping, ex_i, ex_new_text, ex_map_spans, ex_sp,
            ex_error, ex_result>>

\* layers_to_keep_default(text, layer).
VARIABLES
    lk_pc,       \* "edges" | "descendants" | "done" | "raised" | "idle"
    lk_layers,   \* text.layers, in the order of items()
    lk_layer,    \* the argument layer, a layer name
    lk_k,        \* number of items the loop has gone through
    lk_graph,    \* graph: [nodes, edges]
    lk_result,   \* the returned set
    lk_error     \* the exception raised, or None

lkVars == <<lk_pc, lk_layers, lk_layer, lk_k, lk_graph, lk_result, lk_error>>

\* split_by(text, layer_name, layers_to_keep).
VARIABLES
    sb_pc,             \* "call" | "loop" | "done" | "raised" | "idle"
    sb_text,           \* text.text
    sb_layers,         \* the layers of text
    sb_layer_name,
    sb_given,          \* the argument layers_to_keep: <<>> (None) or <<S>>
    sb_layers_to_keep, \* layers_to_keep after line 105
    sb_spans,          \* spans
    sb_k,              \* number of spans the loop has gone through
    sb_result,         \* result
    sb_error,          \* the exception raised, or None
    sb_returned        \* <<>>: nothing returned; <<result>>: the returned list

sbVars == <<sb_pc, sb_text, sb_layers, sb_layer_name, sb_given,
            sb_layers_to_keep, sb_spans, sb_k, sb_result, sb_error,
            sb_returned>>

\* CompoundTokenTagger._make_layer(raw_text, layers, status).
VARIABLES
    ct_pc,                    \* "hints" | "sweep" | "final" | "done" |
                              \* "raised" | "idle"
    ct_raw_text,              \* raw_text, a sequence of one-character strings
    ct_tokens,                \* layers[self._input_tokens_layer]
    ct_hints_1,               \* what _tokenization_hints_tagger_1 returns
    ct_tagger_2,              \* <<>>: _tokenization_hints_tagger_2 is None;
                              \* <<spans>>: what it returns
    ct_custom_abbreviations,  \* self.custom_abbreviations
    ct_do_not_join_on_strings,\* self.do_not_join_on_strings
    ct_tag_hyphenations,      \* self.tag_hyphenations
    ct_tokenization_hints,    \* tokenization_hints: start -> end_node
    ct_compound_tokens_lists, \* compound_tokens_lists
    ct_i,                     \* number of tokens the sweep has gone through
    ct_hyphenation_status,    \* None | "-" | "second" | "end"
    ct_hyphenation_start,     \* hyphenation_start (-1: not yet bound)
    ct_last_end,              \* last_end: <<>> (None) or <<end>>
    ct_appended,              \* every candidate the sweep has appended
    ct_swept,                 \* compound_tokens_lists as the sweep left it
    ct_layer,                 \* the returned layer
    ct_error                  \* the exception raised, or None

ctVars == <<ct_pc, ct_raw_text, ct_tokens, ct_hints_1, ct_tagger_2,
            ct_custom_abbreviations, ct_do_not_join_on_strings,
            ct_tag_hyphenations, ct_tokenization_hints,
            ct_compound_tokens_lists, ct_i, ct_hyphenation_status,
            ct_hyphenation_start, ct_last_end, ct_appended, ct_swept,
            ct_layer, ct_error>>

\* resolve_conflicts(layer, conflict_resolving_strategy, priority_attribute,
\* keep_equal), applied to a layer and then to its own result.
VARIABLES
    rc_pc,                          \* "first" | "second" | "done" | "idle"
    rc_layer,                       \* the layer: a sorted sequence of spans
    rc_conflict_resolving_strategy, \* "MAX" | "MIN"
    rc_priority_attribute,          \* <<>> (None) or <<"_priority_">>
    rc_keep_equal,
    rc_once,                        \* resolve_conflicts(layer)
    rc_twice                        \* resolve_conflicts(resolve_conflicts(layer))

rcVars == <<rc_pc, rc_layer, rc_conflict_resolving_strategy,
            rc_priority_attribute, rc_keep_equal, rc_once, rc_twice>>

\* PgCollection.create_layer and PgCollection.delete_layer, one call on a
\* collection with detached layers.
VARIABLES
    pg_pc,         \* "ready" | "done" | "idle"
    pg_db,         \* the database: [tables, rows, structure]
    pg_structure,  \* self._structure: the structure rows as last read
    pg_conn,       \* self.storage.conn: [autocommit, saved]
    pg_call,       \* the call and its arguments
    pg_before,     \* the database before the call
    pg_dropped,    \* the layers whose table the call has dropped, in order
    pg_error       \* the exception raised, or None

pgVars == <<pg_pc, pg_db, pg_structure, pg_conn, pg_call, pg_before,
            pg_dropped, pg_error>>

\* PgCollection.insert(buffer_size, query_length_limit): the with-block and
\* the calls of the insert function inside it.
VARIABLES
    bi_pc,                 \* "block" | "exited" | "idle"
    bi_buffer_size,        \* buffer_size
    bi_query_length_limit, \* query_length_limit
    bi_buffer,             \* buffer
    bi_query_length,       \* self._buffered_insert_query_length
    bi_table,              \* the rows of the collection table, in order
    bi_passed,             \* the rows passed to the insert function
    bi_flushed,            \* <<>>, or <<b>>: the last call has flushed (b)
    bi_exception,          \* the exception of the last call or of the exit
    bi_structure,          \* what the structure checks see
    bi_calls               \* the number of calls made in the block

biVars == <<bi_pc, bi_buffer_size, bi_query_length_limit, bi_buffer,
            bi_query_length, bi_table, bi_passed, bi_flushed, bi_exception,
            bi_structure, bi_calls>>

\* What a step of GapTagger leaves alone.
GapFrame ==
    UNCHANGED <<exVars, lkVars, sbVars, ctVars, rcVars, pgVars, biVars>>

\* What a step of excerpt leaves alone.
ExcerptFrame ==
    UNCHANGED <<gtVars, lkVars, sbVars, ctVars, rcVars, pgVars, biVars>>

\* What a step of layers_to_keep_default leaves alone.
KeepFrame ==
    UNCHANGED <<gtVars, exVars, sbVars, ctVars, rcVars, pgVars, biVars>>

\* What a step of split_by leaves alone.
SplitFrame ==
    UNCHANGED <<gtVars, exVars, lkVars, ctVars, rcVars, pgVars, biVars>>

\* What a step of CompoundTokenTagger leaves alone.
CompoundFrame ==
    UNCHANGED <<gtVars, exVars, lkVars, sbVars, rcVars, pgVars, biVars>>

\* What a step of resolve_conflicts leaves alone.
ResolveFrame ==
    UNCHANGED <<gtVars, exVars, lkVars, sbVars, ctVars, pgVars, biVars>>

\* What a call of create_layer or delete_layer leaves alone.
PgFrame ==
    UNCHANGED <<gtVars, exVars, lkVars, sbVars, ctVars, rcVars, biVars>>

\* What a step of PgCollection.insert leaves alone.
InsertFrame ==
    UNCHANGED <<gtVars, exVars, lkVars, sbVars, ctVars, rcVars, pgVars>>

\* The text of test_gap_tagger.py, 'Üks kaks kolm neli viis kuus seitse.'
\* (U stands for the capital U with diaeresis).
test_text ==
    <<"U","k","s"," ","k","a","k","s"," ","k","o","l","m"," ",
      "n","e","l","i"," ","v","i","i","s"," ","k","u","u","s"," ",
      "s","e","i","t","s","e",".">>

layer_1 == <<[start |-> 4, end |-> 8], [start |-> 9, end |-> 13],
             [start |-> 24, end |-> 28]>>

layer_2 == <<[start |-> 4, end |-> 8], [start |-> 9, end |-> 18],
             [start |-> 35, end |-> 36]>>

\* The input layers of the test run: test_1 and test_2.
input_layers == <<layer_1, layer_2>>

IsSpace(c) == c = " "

\* str.strip: drop the leading whitespace.
RECURSIVE LStrip(_)
LStrip(s) ==
    IF s = <<>> THEN <<>>
    ELSE IF IsSpace(Head(s)) THEN LStrip(Tail(s)) ELSE s

\* str.strip: drop the trailing whitespace.
RECURSIVE RStrip(_)
RStrip(s) ==
    IF s = <<>> THEN <<>>
    ELSE IF IsSpace(s[Len(s)]) THEN RStrip(SubSeq(s, 1, Len(s) - 1)) ELSE s

\* trim callback of the test: t.strip().
trim(t) == RStrip(LStrip(t))

\* decorator callback of the test: {'gap_length': len(t)}.
decorator(t) == << <<"gap_length", Len(t)>> >>

\* Sorted insertion into a list ordered by (start, end).
RECURSIVE InsertSorted(_, _)
InsertSorted(span, list) ==
    IF list = <<>> THEN <<span>>
    ELSE IF SpanLess(span, Head(list)) THEN <<span>> \o list
    ELSE <<Head(list)>> \o InsertSorted(span, Tail(list))

RECURSIVE InsertAll(_, _)
InsertAll(spans, list) ==
    IF spans = <<>> THEN list
    ELSE InsertAll(Tail(spans), InsertSorted(Head(spans), list))

\* Merge the intervals of all source layers into one sorted list.
RECURSIVE MergeLayers(_)
MergeLayers(layers) ==
    IF layers = <<>> THEN <<>>
    ELSE InsertAll(Head(layers), MergeLayers(Tail(layers)))

\* Mutant of AdvanceCursor: the covered prefix follows the last span's end.
AdvanceCursorToSpanEnd(cursor, span) == span.end

\* The covered prefix after a span: it never moves left.
AdvanceCursor(cursor, span) == Max(cursor, span.end)

\* Mutant of DecoratedText: the decorator sees the untrimmed substring.
DecoratedTextUntrimmed(text, start, end, t) == Slice(text, start, end)

\* The substring the decorator is applied to: the trimmed one.
DecoratedText(text, start, end, t) == t

\* One complement interval [start, end), start < end, as the output spans it
\* yields: narrowed to the trimmed substring, dropped when that is empty.
MakeGap(text, start, end, trimming, decorating) ==
    LET sub == Slice(text, start, end)
        t == IF trimming THEN trim(sub) ELSE sub
        new_start == IF trimming
                     THEN start + (Len(sub) - Len(LStrip(sub)))
                     ELSE start
        new_end == new_start + Len(t)
    IN IF new_start < new_end
       THEN <<[start |-> new_start, end |-> new_end,
               attrs |-> IF decorating
                         THEN decorator(DecoratedText(text, start, end, t))
                         ELSE <<>>]>>
       ELSE <<>>

\* Sorted, pairwise disjoint sequences of at most n non-empty spans in [0, L).
GapIntervals(L) == {[start |-> a, end |-> b] : a \in 0..L, b \in 0..L}
DisjointSorted(s) ==
    /\ \A i \in 1..Len(s) : s[i].start < s[i].end
    /\ \A i \in 1..Len(s) - 1 : s[i].end <= s[i + 1].start
SourceLayers(L, n) == {s \in SeqsUpTo(GapIntervals(L), n) : DisjointSorted(s)}

GapTexts == SeqsUpTo({"x", " "}, MaxGapLen)

\* The state before GapTagger.tag(text): a text, its two input layers and
\* the tagger's configuration.
GapInit ==
    /\ gt_pc = "start"
    /\ \/ /\ gt_text \in GapTexts
          /\ gt_layers \in [1..2 -> SourceLayers(Len(gt_text), MaxGapSpans)]
       \/ /\ gt_text = test_text
          /\ gt_layers = input_layers
    /\ gt_trim \in BOOLEAN
    /\ gt_decorator \in BOOLEAN
    /\ gt_spans = <<>>
    /\ gt_k = 0
    /\ gt_cursor = 0
    /\ gt_gaps = <<>>

GapIdle ==
    /\ gt_pc = "idle"
    /\ gt_text = <<>>
    /\ gt_layers = <<>>
    /\ gt_trim = FALSE
    /\ gt_decorator = FALSE
    /\ gt_spans = <<>>
    /\ gt_k = 0
    /\ gt_cursor = 0
    /\ gt_gaps = <<>>

\* Merge the source layers' intervals.
GapMerge ==
    /\ GapFrame
    /\ gt_pc = "start"
    /\ gt_spans' = MergeLayers(gt_layers)
    /\ gt_pc' = "walk"
    /\ UNCHANGED <<gt_text, gt_layers, gt_trim, gt_decorator, gt_k,
                   gt_cursor, gt_gaps>>

\* Walk the complement: one merged span.
GapWalk ==
    /\ GapFrame
    /\ gt_pc = "walk"
    /\ gt_k < Len(gt_spans)
    /\ LET span == gt_spans[gt_k + 1]
       IN /\ gt_gaps' = IF gt_cursor < span.start
                        THEN gt_gaps \o MakeGap(gt_text, gt_cursor, span.start,
                                                gt_trim, gt_decorator)
                        ELSE gt_gaps
          /\ gt_cursor' = AdvanceCursor(gt_cursor, span)
    /\ gt_k' = gt_k + 1
    /\ UNCHANGED <<gt_pc, gt_text, gt_layers, gt_trim, gt_decorator, gt_spans>>

\* The complement's last interval, [last_end, L).
GapTail ==
    /\ GapFrame
    /\ gt_pc = "walk"
    /\ gt_k = Len(gt_spans)
    /\ gt_gaps' = IF gt_cursor < Len(gt_text)
                  THEN gt_gaps \o MakeGap(gt_text, gt_cursor, Len(gt_text),
                                          gt_trim, gt_decorator)
                  ELSE gt_gaps
    /\ gt_pc' = "done"
    /\ UNCHANGED <<gt_text, gt_layers, gt_trim, gt_decorator, gt_spans,
                   gt_k, gt_cursor>>

GapNext == GapMerge \/ GapWalk \/ GapTail

\* ----------------------------------------------------------------- excerpt
\* Layers are records [name, attributes, parent, enveloping, ambiguous, spans];
\* parent and enveloping hold a layer NAME (or None).  A span of a source
\* layer is [start, end, annotations, parent, spans]: annotations is the list
\* of its annotations, each the tuple of its values for the layer's
\* attributes; parent is the index of its parent span in the parent layer
\* (0: none); spans lists the indices of its components in the enveloped
\* layer.  A span object is identified by its key <<layer, span, annotation>>
\* (annotation 0: the span itself).
None == "None"
NoKey == <<>>
EmptyMap == [k \in {} |-> k]

\* map_spans.get(key): a one-element list with the value, or <<>> for None.
MapGet(map, key) == IF key \in DOMAIN map THEN <<map[key]>> ELSE <<>>

\* map_spans[key] = value.
MapPut(map, key, value) ==
    [k \in DOMAIN map \cup {key} |-> IF k = key THEN value ELSE map[k]]

\* Index in list_layers() of the layer called name (0: no such layer).
LayerIndex(layers, name) ==
    IF \E k \in 1..Len(layers) : layers[k].name = name
    THEN CHOOSE k \in 1..Len(layers) : layers[k].name = name
    ELSE 0

\* `layer_name not in layers_to_keep`, when layers_to_keep is not None.
Skipped(layers_to_keep, layer_name) ==
    layers_to_keep # <<>> /\ layer_name \notin layers_to_keep[1]

\* Truth value of a new span object: a Span is true, a SpanList is true
\* when it is non-empty.
Truthy(new_span) == new_span.is_list => new_span.spans # <<>>

\* for attr in attributes: setattr(new_span, attr, getattr(span, attr)).
CopyAttributes(attributes, annotation) ==
    [n \in 1..Len(attributes) |-> annotation[n]]

\* Mutant of CrossesWindow: a span that starts at the window's start is
\* taken to cross it.
CrossesWindowAtStart(span_start, span_end, start, end) ==
    span_start <= start \/ end < span_end

\* The window test of a span when trim_overlapping is off: TRUE = dropped.
CrossesWindow(span_start, span_end, start, end) ==
    span_start < start \/ end < span_end

\* Mutant of Clip: with trim_overlapping an empty clipped interval is kept
\* (> for >=).
ClipKeepsEmpty(span, start, end, trim_overlapping) ==
    IF trim_overlapping
    THEN LET span_start == Max(span.start, start)
             span_end == Min(span.end, end)
         IN IF span_start > span_end THEN <<>>
            ELSE <<[start |-> span_start, end |-> span_end]>>
    ELSE IF span.start < start \/ end < span.end THEN <<>>
         ELSE <<[start |-> span.start, end |-> span.end]>>

\* The interval of the new span for a source span, as a list: <<>> when the
\* span is dropped (`continue`), else <<[start, end]>> before the shift.
Clip(span, start, end, trim_overlapping) ==
    IF trim_overlapping
    THEN LET span_start == Max(span.start, start)
             span_end == Min(span.end, end)
         IN IF span_start >= span_end THEN <<>>
            ELSE <<[start |-> span_start, end |-> span_end]>>
    ELSE IF CrossesWindow(span.start, span.end, start, end) THEN <<>>
         ELSE <<[start |-> span.start, end |-> span.end]>>

\* Span(span_start - start, span_end - start).
Shift(position, start) == position - start

\* Layer.add_span: the spans of a layer are kept sorted by (start, end).
AddSpan(spans, new_span) == InsertSorted(new_span, spans)

\* Lines 74-88: the spans of a plain unambiguous layer, from span j on.
\* acc = [spans (of new_layer), map_spans].
RECURSIVE PlainLoop(_, _, _, _, _, _, _)
PlainLoop(layer, l, j, start, end, trim_overlapping, acc) ==
    IF j > Len(layer.spans) THEN acc
    ELSE LET span == layer.spans[j]
             clipped == Clip(span, start, end, trim_overlapping)
         IN IF clipped = <<>>
            THEN PlainLoop(layer, l, j + 1, start, end, trim_overlapping, acc)
            ELSE LET new_span ==
                         [start |-> Shift(clipped[1].start, start),
                          end |-> Shift(clipped[1].end, start),
                          values |-> CopyAttributes(layer.attributes,
                                                    span.annotations[1]),
                          parent |-> NoKey, is_list |-> FALSE,
                          spans |-> <<>>, src |-> <<l, j, 0>>]
                 IN PlainLoop(layer, l, j + 1, start, end, trim_overlapping,
                        [spans |-> AddSpan(acc.spans, new_span),
                         map_spans |-> MapPut(acc.map_spans, <<l, j, 0>>,
                                              new_span)])

\* span_parent.mark(layer_name) and the attribute copy, lines 40-44, for the
\* annotations of one span from annotation a on.  acc = [spans, map_spans, sp].
RECURSIVE MarkLoop(_, _, _, _, _, _)
MarkLoop(layer, l, j, a, span_parent, acc) ==
    IF a > Len(layer.spans[j].annotations) THEN acc
    ELSE LET sp == layer.spans[j].annotations[a]
             new_span ==
                 [start |-> span_parent.start, end |-> span_parent.end,
                  values |-> CopyAttributes(layer.attributes, sp),
                  parent |-> span_parent.src, is_list |-> FALSE,
                  spans |-> <<>>, src |-> <<l, j, a>>]
         IN MarkLoop(layer, l, j, a + 1, span_parent,
                [spans |-> Append(acc.spans, new_span),
                 map_spans |-> MapPut(acc.map_spans, <<l, j, a>>, new_span),
                 sp |-> <<l, j, a>>])

\* Lines 37-44: the spans of an ambiguous layer with a parent, from span j on.
RECURSIVE AttachedLoop(_, _, _, _, _)
AttachedLoop(layer, l, pl, j, acc) ==
    IF j > Len(layer.spans) THEN acc
    ELSE LET span == layer.spans[j]
             span_parent == MapGet(acc.map_spans, <<pl, span.parent, 0>>)
         IN IF span_parent # <<>> /\ Truthy(span_parent[1])
            THEN AttachedLoop(layer, l, pl, j + 1,
                              MarkLoop(layer, l, j, 1, span_parent[1], acc))
            ELSE AttachedLoop(layer, l, pl, j + 1, acc)

\* Position of attr in the attribute tuple (0: not an attribute).
AttrIndex(attributes, attr) ==
    IF \E n \in 1..Len(attributes) : attributes[n] = attr
    THEN CHOOSE n \in 1..Len(attributes) : attributes[n] = attr
    ELSE 0

\* Lines 62-65: the new spans of the components of an enveloping span that
\* map_spans knows (and that are true), from component c on.
RECURSIVE Components(_, _, _, _)
Components(span, el, c, map_spans) ==
    IF c > Len(span.spans) THEN <<>>
    ELSE LET parent == MapGet(map_spans, <<el, span.spans[c], 0>>)
             rest == Components(span, el, c + 1, map_spans)
         IN IF parent # <<>> /\ Truthy(parent[1])
            THEN <<parent[1]>> \o rest
            ELSE rest

\* Lines 66-67: `getattr(sp, attr)` reads the variable sp, which only the
\* loop of an ambiguous layer with a parent (line 40) binds.
\* [error, values].
EnvelopingAttributes(layers, attributes, sp) ==
    IF attributes = <<>> THEN [error |-> None, values |-> <<>>]
    ELSE IF sp = NoKey
    THEN [error |-> "UnboundLocalError", values |-> <<>>]
    ELSE LET sp_layer == layers[sp[1]]
             annotation == sp_layer.spans[sp[2]].annotations[sp[3]]
         IN IF \E n \in 1..Len(attributes) :
                   AttrIndex(sp_layer.attributes, attributes[n]) = 0
            THEN [error |-> "AttributeError", values |-> <<>>]
            ELSE [error |-> None,
                  values |-> [n \in 1..Len(attributes) |->
                      annotation[AttrIndex(sp_layer.attributes,
                                           attributes[n])]]]

\* Lines 51-69: the spans of an unambiguous enveloping layer, from span j on.
\* acc = [spans, map_spans, error].  The start and end of a SpanList are
\* those of its first and last component (None, written -1, without any).
RECURSIVE EnvelopingLoop(_, _, _, _, _, _, _, _, _, _)
EnvelopingLoop(layers, layer, l, el, j, start, end, trim_overlapping, sp, acc) ==
    IF j > Len(layer.spans) \/ acc.error # None THEN acc
    ELSE LET span == layer.spans[j]
             clipped == Clip(span, start, end, trim_overlapping)
         IN IF clipped = <<>>
            THEN EnvelopingLoop(layers, layer, l, el, j + 1, start, end,
                                trim_overlapping, sp, acc)
            ELSE LET comps == Components(span, el, 1, acc.map_spans)
                     got == EnvelopingAttributes(layers, layer.attributes, sp)
                     new_span ==
                         [start |-> IF comps = <<>> THEN -1
                                    ELSE comps[1].start,
                          end |-> IF comps = <<>> THEN -1
                                  ELSE comps[Len(comps)].end,
                          values |-> got.values,
                          parent |-> NoKey, is_list |-> TRUE,
                          spans |-> comps, src |-> <<l, j, 0>>]
                 IN IF got.error # None
                    THEN [acc EXCEPT !.error = got.error]
                    ELSE EnvelopingLoop(layers, layer, l, el, j + 1, start,
                             end, trim_overlapping, sp,
                             [spans |-> AddSpan(acc.spans, new_span),
                              map_spans |-> MapPut(acc.map_spans, <<l, j, 0>>,
                                                   new_span),
                              error |-> None])

\* Lines 27-33: the new, empty layer.
NewLayer(layer) ==
    [name |-> layer.name, attributes |-> layer.attributes,
     parent |-> layer.parent, enveloping |-> layer.enveloping,
     ambiguous |-> layer.ambiguous, spans |-> <<>>]

\* Mutant of LayerRaises: the ambiguity tests of the two relation branches
\* are exchanged (a layer with a parent is rejected when ambiguous, an
\* enveloping layer when unambiguous).
LayerRaisesSwapped(layer) ==
    IF layer.parent # None THEN layer.ambiguous
    ELSE IF layer.enveloping # None THEN ~layer.ambiguous
    ELSE layer.ambiguous

\* Mutant of LayerRaises: a layer with a parent is never rejected.
LayerRaisesNoAttached(layer) ==
    IF layer.parent # None THEN FALSE
    ELSE IF layer.enveloping # None THEN layer.ambiguous
    ELSE layer.ambiguous

\* Mutant of LayerRaises: an enveloping layer is never rejected.
LayerRaisesNoEnveloping(layer) ==
    IF layer.parent # None THEN ~layer.ambiguous
    ELSE IF layer.enveloping # None THEN FALSE
    ELSE layer.ambiguous

\* Lines 35-36, 45-49, 70-72: the layer shapes excerpt rejects with
\* NotImplementedError.
LayerRaises(layer) ==
    IF layer.parent # None THEN ~layer.ambiguous
    ELSE IF layer.enveloping # None THEN layer.ambiguous
    ELSE layer.ambiguous

\* Lines 18-88: one iteration of `for layer in text.list_layers()`.
\* st = [new_text, map_spans, sp, error].
ProcessLayer(st, layers, l, start, end, layers_to_keep, trim_overlapping) ==
    LET layer == layers[l]
        added == [st EXCEPT !.new_text.layers = Append(@, NewLayer(layer))]
        n == Len(added.new_text.layers)
    IN IF Skipped(layers_to_keep, layer.name) THEN st
       ELSE IF LayerRaises(layer)
       THEN [added EXCEPT !.error = "NotImplementedError"]
       ELSE IF layer.parent # None
       THEN LET got == AttachedLoop(layer, l, LayerIndex(layers, layer.parent),
                           1, [spans |-> <<>>, map_spans |-> st.map_spans,
                               sp |-> st.sp])
            IN [added EXCEPT !.new_text.layers[n].spans = got.spans,
                             !.map_spans = got.map_spans,
                             !.sp = got.sp]
       ELSE IF layer.enveloping # None
       THEN LET got == EnvelopingLoop(layers, layer, l,
                           LayerIndex(layers, layer.enveloping), 1, start,
                           end, trim_overlapping, st.sp,
                           [spans |-> <<>>, map_spans |-> st.map_spans,
                            error |-> None])
            IN [added EXCEPT !.new_text.layers[n].spans = got.spans,
                             !.map_spans = got.map_spans,
                             !.error = got.error]
       ELSE LET got == PlainLoop(layer, l, 1, start, end, trim_overlapping,
                           [spans |-> <<>>, map_spans |-> st.map_spans])
            IN [added EXCEPT !.new_text.layers[n].spans = got.spans,
                             !.map_spans = got.map_spans]

\* Lines 16-17: map_spans = {}; new_text = Text(text.text[start:end]).
ExcerptStart(text, start, end) ==
    [new_text |-> [text |-> Slice(text, start, end), layers |-> <<>>],
     map_spans |-> EmptyMap, sp |-> NoKey, error |-> None]

\* excerpt as a function: the state after the loop has ended (by exhaustion
\* or by an exception), from layer l on.
RECURSIVE ExcerptFrom(_, _, _, _, _, _, _)
ExcerptFrom(st, layers, l, start, end, layers_to_keep, trim_overlapping) ==
    IF l > Len(layers) \/ st.error # None THEN st
    ELSE ExcerptFrom(ProcessLayer(st, layers, l, start, end, layers_to_keep,
                                  trim_overlapping),
                     layers, l + 1, start, end, layers_to_keep,
                     trim_overlapping)

\* excerpt(text, start, end, layers_to_keep, trim_overlapping):
\* [error, result], result <<new_text>> when it returns.
excerpt(text, layers, start, end, layers_to_keep, trim_overlapping) ==
    LET st == ExcerptFrom(ExcerptStart(text, start, end), layers, 1, start,
                          end, layers_to_keep, trim_overlapping)
    IN [error |-> st.error,
        result |-> IF st.error = None THEN <<st.new_text>> ELSE <<>>]

\* ------------------------------------------------- excerpt: the documents
\* The text: its p-th character is written p, so that every slice of it
\* shows where it was cut.
DocText == [i \in 1..MaxLen |-> i - 1]

\* The attribute value of annotation a of span j of layer l: all distinct.
Value(l, j, a) == 100 * l + 10 * j + a

\* The annotations of span j of layer l: one in an unambiguous layer; in an
\* ambiguous layer two for odd j and one for even j.
Annotations(l, j, ambiguous, attributes) ==
    LET count == IF ambiguous /\ j % 2 = 1 THEN 2 ELSE 1
    IN [a \in 1..count |-> [n \in 1..Len(attributes) |-> Value(l, j, a)]]

\* A plain layer (no parent, not enveloping) at place l of list_layers().
PlainLayer(name, l, intervals, ambiguous) ==
    [name |-> name, attributes |-> <<"attr">>, parent |-> None,
     enveloping |-> None, ambiguous |-> ambiguous,
     spans |-> [j \in 1..Len(intervals) |->
                  [start |-> intervals[j].start, end |-> intervals[j].end,
                   annotations |-> Annotations(l, j, ambiguous, <<"attr">>),
                   parent |-> 0, spans |-> <<>>]]]

\* A layer attached to parent_layer: one span per span of the parent, on
\* the same interval.
AttachedLayer(name, l, parent_layer, ambiguous) ==
    [name |-> name, attributes |-> <<"attr">>, parent |-> parent_layer.name,
     enveloping |-> None, ambiguous |-> ambiguous,
     spans |-> [j \in 1..Len(parent_layer.spans) |->
                  [start |-> parent_layer.spans[j].start,
                   end |-> parent_layer.spans[j].end,
                   annotations |-> Annotations(l, j, ambiguous, <<"attr">>),
                   parent |-> j, spans |-> <<>>]]]

\* A layer enveloping enveloped_layer: span j groups the spans groups[j] of
\* the enveloped layer, from the start of the first to the end of the last.
EnvelopingLayer(name, l, enveloped_layer, groups, ambiguous, attributes) ==
    [name |-> name, attributes |-> attributes, parent |-> None,
     enveloping |-> enveloped_layer.name, ambiguous |-> ambiguous,
     spans |-> [j \in 1..Len(groups) |->
                  [start |-> enveloped_layer.spans[groups[j][1]].start,
                   end |-> enveloped_layer.spans[
                               groups[j][Len(groups[j])]].end,
                   annotations |-> Annotations(l, j, ambiguous, attributes),
                   parent |-> 0, spans |-> groups[j]]]]

\* The ways to group spans 1..m into runs of neighbours, in order: one for
\* every set of places to cut.
RECURSIVE Blocks(_, _, _)
Blocks(from, m, cuts) ==
    IF from > m THEN <<>>
    ELSE LET to == CHOOSE c \in (cuts \cup {m}) :
                       /\ c >= from
                       /\ \A d \in (cuts \cup {m}) : d >= from => c <= d
         IN <<[i \in 1..(to - from + 1) |-> from + i - 1]>>
                \o Blocks(to + 1, m, cuts)
Groupings(m) == {Blocks(1, m, cuts) : cuts \in SUBSET (1..(m - 1))}

\* The span sequences of a plain unambiguous layer: sorted, disjoint,
\* non-empty spans.
SpanSeqs == SourceLayers(MaxLen, MaxSpans)

\* The first layer: plain.  An ambiguous plain layer is rejected before its
\* spans are read, so one such layer stands for all.
TokensLayers ==
    {PlainLayer("tokens", 1, s, FALSE) : s \in SpanSeqs}
        \cup {PlainLayer("tokens", 1, <<[start |-> 0, end |-> 1]>>, TRUE)}

\* The second layer of a document whose first layer is tokens.  An ambiguous
\* enveloping layer is rejected before its spans are read.
SecondLayers(tokens) ==
    {PlainLayer("words", 2, s, FALSE) : s \in SpanSeqs}
        \cup {AttachedLayer("morph_analysis", 2, tokens, amb) :
                amb \in BOOLEAN}
        \cup {EnvelopingLayer("sentences", 2, tokens, g, FALSE, attrs) :
                g \in Groupings(Len(tokens.spans)),
                attrs \in {<<>>, <<"attr">>}}
        \cup {EnvelopingLayer("sentences", 2, tokens,
                              CHOOSE g \in Groupings(Len(tokens.spans)) : TRUE,
                              TRUE, attrs) :
                attrs \in {<<>>, <<"attr">>}}

\* The attribute tuples of an enveloping layer: none, the attribute the
\* other layers have, an attribute no other layer has.
EnvelopingAttributeChoices == {<<>>, <<"attr">>, <<"type">>}

\* Documents of three layers: tokens with an ambiguous morph_analysis
\* attached and with sentences enveloping tokens, sentences coming after or
\* before morph_analysis; and tokens, sentences, and paragraphs enveloping
\* sentences.
DeepDocuments ==
    UNION {
        LET morph(l) == AttachedLayer("morph_analysis", l, t, TRUE)
            sentences(l, g, attrs) ==
                EnvelopingLayer("sentences", l, t, g, FALSE, attrs)
        IN {<<t, morph(2), sentences(3, g, attrs)>> :
                g \in Groupings(Len(t.spans)),
                attrs \in EnvelopingAttributeChoices}
           \cup {<<t, sentences(2, g, attrs), morph(3)>> :
                g \in Groupings(Len(t.spans)),
                attrs \in EnvelopingAttributeChoices}
           \cup UNION {
                {<<t, sentences(2, g, <<>>),
                   EnvelopingLayer("paragraphs", 3, sentences(2, g, <<>>), h,
                                   FALSE, <<>>)>> :
                    h \in Groupings(Len(g))} :
                g \in Groupings(Len(t.spans))}
        : t \in {PlainLayer("tokens", 1, q, FALSE) : q \in SpanSeqs}}

\* Documents, as list_layers() returns them: in dependency order.
Documents ==
    {<<t>> : t \in TokensLayers}
        \cup UNION {{<<t, x>> : x \in SecondLayers(t)} : t \in TokensLayers}

\* The documents excerpt is applied to.
ExcerptDocuments == Documents \cup DeepDocuments

LayerNamesOf(layers) == {layers[k].name : k \in 1..Len(layers)}

\* The values of layers_to_keep for a document: None or a set of its names.
KeepChoices(layers) == {<<>>} \cup {<<S>> : S \in SUBSET LayerNamesOf(layers)}

NoText == [text |-> <<>>, layers |-> <<>>]

\* excerpt(text, start, end, layers_to_keep, trim_overlapping) is called.
ExcerptInit ==
    /\ ex_pc = "call"
    /\ ex_text = DocText
    /\ ex_layers \in ExcerptDocuments
    /\ ex_start \in 0..MaxLen
    /\ ex_end \in ex_start..MaxLen
    /\ ex_layers_to_keep \in KeepChoices(ex_layers)
    /\ ex_trim_overlapping \in BOOLEAN
    /\ ex_i = 0
    /\ ex_new_text = NoText
    /\ ex_map_spans = EmptyMap
    /\ ex_sp = NoKey
    /\ ex_error = None
    /\ ex_result = <<>>

ExcerptIdle ==
    /\ ex_pc = "idle"
    /\ ex_text = <<>>
    /\ ex_layers = <<>>
    /\ ex_start = 0
    /\ ex_end = 0
    /\ ex_layers_to_keep = <<>>
    /\ ex_trim_overlapping = FALSE
    /\ ex_i = 0
    /\ ex_new_text = NoText
    /\ ex_map_spans = EmptyMap
    /\ ex_sp = NoKey
    /\ ex_error = None
    /\ ex_result = <<>>

exInputs == <<ex_text, ex_layers, ex_start, ex_end, ex_layers_to_keep,
              ex_trim_overlapping>>

\* Lines 16-17.
ExcerptCall ==
    /\ ExcerptFrame
    /\ ex_pc = "call"
    /\ LET st == ExcerptStart(ex_text, ex_start, ex_end)
       IN /\ ex_new_text' = st.new_text
          /\ ex_map_spans' = st.map_spans
          /\ ex_sp' = st.sp
    /\ ex_pc' = "loop"
    /\ UNCHANGED <<exInputs, ex_i, ex_error, ex_result>>

\* Lines 18-88: the loop's next layer; an exception ends the call.
ExcerptLayer ==
    /\ ExcerptFrame
    /\ ex_pc = "loop"
    /\ ex_i < Len(ex_layers)
    /\ LET st == ProcessLayer([new_text |-> ex_new_text,
                               map_spans |-> ex_map_spans,
                               sp |-> ex_sp, error |-> None],
                              ex_layers, ex_i + 1, ex_start, ex_end,
                              ex_layers_to_keep, ex_trim_overlapping)
       IN /\ ex_new_text' = st.new_text
          /\ ex_map_spans' = st.map_spans
          /\ ex_sp' = st.sp
          /\ ex_error' = st.error
          /\ ex_pc' = IF st.error = None THEN "loop" ELSE "raised"
    /\ ex_i' = ex_i + 1
    /\ UNCHANGED <<exInputs, ex_result>>

\* Line 89: return new_text.
ExcerptReturn ==
    /\ ExcerptFrame
    /\ ex_pc = "loop"
    /\ ex_i = Len(ex_layers)
    /\ ex_result' = <<ex_new_text>>
    /\ ex_pc' = "done"
    /\ UNCHANGED <<exInputs, ex_i, ex_new_text, ex_map_spans, ex_sp, ex_error>>

ExcerptNext == ExcerptCall \/ ExcerptLayer \/ ExcerptReturn

\* ------------------------------------------------ layers_to_keep_default
EmptyGraph == [nodes |-> {}, edges |-> {}]

\* graph.add_edge(u, v): the edge and both its nodes.
AddEdge(graph, u, v) ==
    [nodes |-> graph.nodes \cup {u, v}, edges |-> graph.edges \cup {<<u, v>>}]

\* Mutant of AddLayerEdges: a layer with a parent gets the edge to its
\* parent only.
AddLayerEdgesOneWay(graph, layer_object) ==
    IF layer_object.enveloping # None
    THEN AddEdge(graph, layer_object.name, layer_object.enveloping)
    ELSE IF layer_object.parent # None
    THEN AddEdge(graph, layer_object.name, layer_object.parent)
    ELSE graph

\* Lines 95-99: the edges of one layer.
AddLayerEdges(graph, layer_object) ==
    IF layer_object.enveloping # None
    THEN AddEdge(graph, layer_object.name, layer_object.enveloping)
    ELSE IF layer_object.parent # None
    THEN AddEdge(AddEdge(graph, layer_object.name, layer_object.parent),
                 layer_object.parent, layer_object.name)
    ELSE graph

\* Lines 93-99: the graph of a document, from item k on.
RECURSIVE BuildGraph(_, _, _)
BuildGraph(graph, layers, k) ==
    IF k > Len(layers) THEN graph
    ELSE BuildGraph(AddLayerEdges(graph, layers[k]), layers, k + 1)

\* The nodes a breadth-first search from the nodes seen reaches.
RECURSIVE Reach(_, _)
Reach(edges, seen) ==
    LET next == seen \cup {e[2] : e \in {d \in edges : d[1] \in seen}}
    IN IF next = seen THEN seen ELSE Reach(edges, next)

\* networkx.descendants(graph, source): every node reachable from source,
\* source excluded; NetworkXError when source is not a node of the graph.
\* [error, nodes].
descendants(graph, source) ==
    IF source \notin graph.nodes
    THEN [error |-> "NetworkXError", nodes |-> {}]
    ELSE [error |-> None, nodes |-> Reach(graph.edges, {source}) \ {source}]

\* layers_to_keep_default(text, layer): [error, result].
layers_to_keep_default(layers, layer) ==
    LET got == descendants(BuildGraph(EmptyGraph, layers, 1), layer)
    IN [error |-> got.error,
        result |-> IF got.error = None THEN got.nodes \cup {layer} ELSE {}]

\* The names of the layers of a document, in the order they were added.
LayerNames == <<"tokens", "words", "morph_analysis", "sentences",
                "paragraphs">>

\* A layer with its relation only.
RelationLayer(name, parent, enveloping) ==
    [name |-> name, attributes |-> <<>>, parent |-> parent,
     enveloping |-> enveloping, ambiguous |-> FALSE, spans |-> <<>>]

\* The layers that can come k-th: plain, or attached to or enveloping one
\* of the layers added before it.
RelationLayers(k) ==
    {RelationLayer(LayerNames[k], None, None)}
        \cup {RelationLayer(LayerNames[k], LayerNames[r], None) :
                r \in 1..(k - 1)}
        \cup {RelationLayer(LayerNames[k], None, LayerNames[r]) :
                r \in 1..(k - 1)}

\* The documents of n layers.
RelationDocuments(n) ==
    {d \in [1..n -> UNION {RelationLayers(k) : k \in 1..n}] :
        \A k \in 1..n : d[k] \in RelationLayers(k)}

\* layers_to_keep_default(text, layer) is called for a layer of text.
KeepInit ==
    /\ lk_pc = "edges"
    /\ \E n \in 1..Min(MaxKeepLayers, Len(LayerNames)) :
          lk_layers \in RelationDocuments(n)
    /\ lk_layer \in LayerNamesOf(lk_layers)
    /\ lk_k = 0
    /\ lk_graph = EmptyGraph
    /\ lk_result = {}
    /\ lk_error = None

KeepIdle ==
    /\ lk_pc = "idle"
    /\ lk_layers = <<>>
    /\ lk_layer = None
    /\ lk_k = 0
    /\ lk_graph = EmptyGraph
    /\ lk_result = {}
    /\ lk_error = None

\* Lines 94-99: one item of text.layers.
KeepAddEdges ==
    /\ KeepFrame
    /\ lk_pc = "edges"
    /\ lk_k < Len(lk_layers)
    /\ lk_graph' = AddLayerEdges(lk_graph, lk_layers[lk_k + 1])
    /\ lk_k' = lk_k + 1
    /\ UNCHANGED <<lk_pc, lk_layers, lk_layer, lk_result, lk_error>>

\* Line 100: nx.descendants(graph, layer) | {layer}, or its exception.
KeepDescendants ==
    /\ KeepFrame
    /\ lk_pc = "edges"
    /\ lk_k = Len(lk_layers)
    /\ LET got == descendants(lk_graph, lk_layer)
       IN /\ lk_error' = got.error
          /\ lk_result' = IF got.error = None
                          THEN got.nodes \cup {lk_layer} ELSE {}
          /\ lk_pc' = IF got.error = None THEN "done" ELSE "raised"
    /\ UNCHANGED <<lk_layers, lk_layer, lk_k, lk_graph>>

KeepNext == KeepAddEdges \/ KeepDescendants

\* ---------------------------------------------------------------- split_by
\* split_by(text, layer_name, layers_to_keep) is called for a layer of text.
SplitInit ==
    /\ sb_pc = "call"
    /\ sb_text = DocText
    /\ sb_layers \in Documents
    /\ sb_layer_name \in LayerNamesOf(sb_layers)
    /\ sb_given \in KeepChoices(sb_layers)
    /\ sb_layers_to_keep = <<>>
    /\ sb_spans = <<>>
    /\ sb_k = 0
    /\ sb_result = <<>>
    /\ sb_error = None
    /\ sb_returned = <<>>

SplitIdle ==
    /\ sb_pc = "idle"
    /\ sb_text = <<>>
    /\ sb_layers = <<>>
    /\ sb_layer_name = None
    /\ sb_given = <<>>
    /\ sb_layers_to_keep = <<>>
    /\ sb_spans = <<>>
    /\ sb_k = 0
    /\ sb_result = <<>>
    /\ sb_error = None
    /\ sb_returned = <<>>

sbInputs == <<sb_text, sb_layers, sb_layer_name, sb_given>>

\* Mutant of DefaultKeep: no default; layers_to_keep stays None, which keeps
\* every layer.
DefaultKeepNone(layers, layer_name, given) ==
    [error |-> None, layers_to_keep |-> given]

\* Lines 104-105: layers_to_keep, defaulted.  [error, layers_to_keep].
DefaultKeep(layers, layer_name, given) ==
    IF given = <<>>
    THEN LET got == layers_to_keep_default(layers, layer_name)
         IN [error |-> got.error, layers_to_keep |-> <<got.result>>]
    ELSE [error |-> None, layers_to_keep |-> given]

\* Line 106: the (start, end) of the elements of text[layer_name].
SpansOf(layers, layer_name) ==
    LET spans == layers[LayerIndex(layers, layer_name)].spans
    IN [j \in 1..Len(spans) |->
           [start |-> spans[j].start, end |-> spans[j].end]]

\* Lines 104-107.
SplitCall ==
    /\ SplitFrame
    /\ sb_pc = "call"
    /\ LET got == DefaultKeep(sb_layers, sb_layer_name, sb_given)
       IN /\ sb_error' = got.error
          /\ IF got.error = None
             THEN /\ sb_layers_to_keep' = got.layers_to_keep
                  /\ sb_spans' = SpansOf(sb_layers, sb_layer_name)
                  /\ sb_pc' = "loop"
             ELSE /\ UNCHANGED <<sb_layers_to_keep, sb_spans>>
                  /\ sb_pc' = "raised"
    /\ UNCHANGED <<sbInputs, sb_k, sb_result, sb_returned>>

\* Lines 108-110: the excerpt of the next span; its exception ends the call.
SplitExcerpt ==
    /\ SplitFrame
    /\ sb_pc = "loop"
    /\ sb_k < Len(sb_spans)
    /\ LET span == sb_spans[sb_k + 1]
           got == excerpt(sb_text, sb_layers, span.start, span.end,
                          sb_layers_to_keep, FALSE)
       IN /\ sb_error' = got.error
          /\ IF got.error = None
             THEN /\ sb_result' = Append(sb_result, got.result[1])
                  /\ sb_pc' = "loop"
             ELSE /\ UNCHANGED sb_result
                  /\ sb_pc' = "raised"
    /\ sb_k' = sb_k + 1
    /\ UNCHANGED <<sbInputs, sb_layers_to_keep, sb_spans, sb_returned>>

\* Line 111: return result.
SplitReturn ==
    /\ SplitFrame
    /\ sb_pc = "loop"
    /\ sb_k = Len(sb_spans)
    /\ sb_returned' = <<sb_result>>
    /\ sb_pc' = "done"
    /\ UNCHANGED <<sbInputs, sb_layers_to_keep, sb_spans, sb_k, sb_result,
                   sb_error>>

SplitNext == SplitCall \/ SplitExcerpt \/ SplitReturn

\* ------------------------------------------------------- resolve_conflicts
\* A layer is a sequence of spans in ascending (start, end) order; a span is
\* a record with start and end, and with priority where a priority
\* attribute is used.
Length(span) == span.end - span.start

\* Two spans are in conflict when they overlap.
Overlaps(a, b) == a.start < b.end /\ b.start < a.end

\* Span a is preferred to span b: by length as the strategy says, and among
\* spans of equal length by the lower value of the priority attribute, if
\* one is given.
Preferred(a, b, conflict_resolving_strategy, priority_attribute) ==
    \/ conflict_resolving_strategy = "MAX" /\ Length(a) > Length(b)
    \/ conflict_resolving_strategy = "MIN" /\ Length(a) < Length(b)
    \/ /\ Length(a) = Length(b)
       /\ priority_attribute # <<>>
       /\ a.priority < b.priority

\* The list without its element at index k.
RemoveAt(list, k) == SubSeq(list, 1, k - 1) \o SubSeq(list, k + 1, Len(list))

\* Mutant of ConflictsFrom: a span is only compared with the span that
\* follows it in the list.
RECURSIVE NextConflictOnly(_, _, _, _, _, _)
NextConflictOnly(spans, i, j, conflict_resolving_strategy, priority_attribute, keep_equal) ==
    IF i > Len(spans) THEN spans
    ELSE IF j > Len(spans) \/ j > i + 1
    THEN NextConflictOnly(spans, i + 1, i + 2, conflict_resolving_strategy,
                          priority_attribute, keep_equal)
    ELSE LET a == spans[i]
             b == spans[j]
         IN IF ~Overlaps(a, b)
            THEN NextConflictOnly(spans, i, j + 1,
                     conflict_resolving_strategy, priority_attribute,
                     keep_equal)
            ELSE IF Preferred(a, b, conflict_resolving_strategy,
                              priority_attribute)
            THEN NextConflictOnly(RemoveAt(spans, j), i, j + 1,
                     conflict_resolving_strategy, priority_attribute,
                     keep_equal)
            ELSE IF Preferred(b, a, conflict_resolving_strategy,
                              priority_attribute)
            THEN NextConflictOnly(RemoveAt(spans, i), i, i + 1,
                     conflict_resolving_strategy, priority_attribute,
                     keep_equal)
            ELSE IF keep_equal
            THEN NextConflictOnly(spans, i, j + 1,
                     conflict_resolving_strategy, priority_attribute,
                     keep_equal)
            ELSE NextConflictOnly(RemoveAt(spans, j), i, j + 1,
                     conflict_resolving_strategy, priority_attribute,
                     keep_equal)

\* The spans are gone through in order, span i against every later span j
\* that is still there: of two spans in conflict the one the other is
\* preferred to is removed; of two equals both stay if keep_equal, and else
\* the first encountered stays.
RECURSIVE ConflictsFrom(_, _, _, _, _, _)
ConflictsFrom(spans, i, j, conflict_resolving_strategy, priority_attribute, keep_equal) ==
    IF i > Len(spans) THEN spans
    ELSE IF j > Len(spans)
    THEN ConflictsFrom(spans, i + 1, i + 2, conflict_resolving_strategy,
                       priority_attribute, keep_equal)
    ELSE LET a == spans[i]
             b == spans[j]
         IN IF ~Overlaps(a, b)
            THEN ConflictsFrom(spans, i, j + 1, conflict_resolving_strategy,
                               priority_attribute, keep_equal)
            ELSE IF Preferred(a, b, conflict_resolving_strategy,
                              priority_attribute)
            THEN ConflictsFrom(RemoveAt(spans, j), i, j,
                     conflict_resolving_strategy, priority_attribute,
                     keep_equal)
            ELSE IF Preferred(b, a, conflict_resolving_strategy,
                              priority_attribute)
            THEN ConflictsFrom(RemoveAt(spans, i), i, i + 1,
                     conflict_resolving_strategy, priority_attribute,
                     keep_equal)
            ELSE IF keep_equal
            THEN ConflictsFrom(spans, i, j + 1, conflict_resolving_strategy,
                               priority_attribute, keep_equal)
            ELSE ConflictsFrom(RemoveAt(spans, j), i, j,
                     conflict_resolving_strategy, priority_attribute,
                     keep_equal)

resolve_conflicts(layer, conflict_resolving_strategy, priority_attribute, keep_equal) ==
    ConflictsFrom(layer, 1, 2, conflict_resolving_strategy,
                  priority_attribute, keep_equal)

\* The layers resolve_conflicts is applied to: at most MaxResolveSpans spans
\* of different intervals, in ascending order, with a priority each.
ResolveSpans ==
    {[start |-> p[1], end |-> p[2], priority |-> q] :
        p \in {x \in (0..MaxResolveLen) \X (0..MaxResolveLen) : x[1] < x[2]},
        q \in 0..1}
ResolveLayers ==
    {l \in SeqsUpTo(ResolveSpans, MaxResolveSpans) :
        \A k \in 1..Len(l) - 1 : SpanLess(l[k], l[k + 1])}

ResolveInit ==
    /\ rc_pc = "first"
    /\ rc_layer \in ResolveLayers
    /\ rc_conflict_resolving_strategy \in {"MAX", "MIN"}
    /\ rc_priority_attribute \in {<<>>, <<"_priority_">>}
    /\ rc_keep_equal \in BOOLEAN
    /\ rc_once = <<>>
    /\ rc_twice = <<>>

ResolveIdle ==
    /\ rc_pc = "idle"
    /\ rc_layer = <<>>
    /\ rc_conflict_resolving_strategy = "MAX"
    /\ rc_priority_attribute = <<>>
    /\ rc_keep_equal = FALSE
    /\ rc_once = <<>>
    /\ rc_twice = <<>>

rcInputs == <<rc_layer, rc_conflict_resolving_strategy,
              rc_priority_attribute, rc_keep_equal>>

\* resolve_conflicts(L).
ResolveFirst ==
    /\ ResolveFrame
    /\ rc_pc = "first"
    /\ rc_once' = resolve_conflicts(rc_layer, rc_conflict_resolving_strategy,
                                    rc_priority_attribute, rc_keep_equal)
    /\ rc_pc' = "second"
    /\ UNCHANGED <<rcInputs, rc_twice>>

\* resolve_conflicts(resolve_conflicts(L)), with the same parameters.
ResolveSecond ==
    /\ ResolveFrame
    /\ rc_pc = "second"
    /\ rc_twice' = resolve_conflicts(rc_once, rc_conflict_resolving_strategy,
                                     rc_priority_attribute, rc_keep_equal)
    /\ rc_pc' = "done"
    /\ UNCHANGED <<rcInputs, rc_once>>

ResolveNext == ResolveFirst \/ ResolveSecond

\* ----------------------------------------------------- CompoundTokenTagger
\* Texts are sequences of one-character strings.  A token is a record with
\* start and end; its text is raw_text[start:end].  Token indices are
\* 0-based as in the source, so token i is tokens[i + 1].  A compound token
\* candidate (an EnvelopingSpan with its attributes) is a record
\* [start, end, spans, type, normalized]: spans are the indices of the
\* tokens it envelops, type is the tuple of its types, normalized is <<>>
\* (None) or <<text>>.
TokenText(raw_text, token) == Slice(raw_text, token.start, token.end)

\* `sub in text` for strings.
Contains(sub, text) ==
    \E k \in 0..(Len(text) - Len(sub)) : SubSeq(text, k + 1, k + Len(sub)) = sub

\* Lines 258-262, 419-423, 537-541: some separator of do_not_join_on_strings
\* is in the snippet.
Discard(do_not_join_on_strings, snippet) ==
    \E n \in 1..Len(do_not_join_on_strings) :
        Contains(do_not_join_on_strings[n], snippet)

\* The pattern types that start with 'negative:'.
NegativePatternTypes == {"negative:temperature_unit"}

\* Lines 240-265: the hints of the first level, from hint k on.
\* acc = [error, tokenization_hints].
RECURSIVE CollectHints(_, _, _, _, _)
CollectHints(span_list, k, raw_text, do_not_join_on_strings, acc) ==
    IF k > Len(span_list) \/ acc.error # None THEN acc
    ELSE LET sp == span_list[k]
             end_node == [end |-> sp.end, pattern_type |-> sp.pattern_type,
                          normalized |-> sp.normalized]
         IN IF sp.pattern_type \in NegativePatternTypes
            THEN CollectHints(span_list, k + 1, raw_text,
                              do_not_join_on_strings, acc)
            ELSE IF sp.start \in DOMAIN acc.tokenization_hints
            THEN [acc EXCEPT !.error = "Exception"]
            ELSE IF Discard(do_not_join_on_strings,
                            Slice(raw_text, sp.start, sp.end))
            THEN CollectHints(span_list, k + 1, raw_text,
                              do_not_join_on_strings, acc)
            ELSE CollectHints(span_list, k + 1, raw_text,
                     do_not_join_on_strings,
                     [acc EXCEPT !.tokenization_hints =
                         MapPut(acc.tokenization_hints, sp.start, end_node)])

\* EnvelopingSpan(spans=tokens[lo:hi]) with its two attributes.
NewEnvelopingSpan(tokens, lo, hi, type, normalized) ==
    [start |-> tokens[lo + 1].start, end |-> tokens[hi].end,
     spans |-> [k \in 1..(hi - lo) |-> lo + k - 1],
     type |-> type, normalized |-> normalized]

\* Lines 405-407: the text of the token after token_id, read only when
\* token_id + 1 < len(tokens) - 1.
NextTokenText(raw_text, tokens, token_id) ==
    IF token_id + 1 < Len(tokens) - 1
    THEN TokenText(raw_text, tokens[token_id + 2])
    ELSE <<>>

\* Lines 405-416: the candidate of the custom abbreviation at token_id.
CustomAbbreviationSpan(raw_text, tokens, token_id) ==
    LET token == TokenText(raw_text, tokens[token_id + 1])
        next_token == NextTokenText(raw_text, tokens, token_id)
    IN IF next_token = <<".">>
       THEN NewEnvelopingSpan(tokens, token_id, token_id + 2,
                <<"non_ending_abbreviation">>, <<token \o next_token>>)
       ELSE NewEnvelopingSpan(tokens, token_id, token_id + 1,
                <<"non_ending_abbreviation">>, <<>>)

\* Mutant of AddCustomAbbreviation: a last compound token that ends where
\* the new one ends is not removed.
AddCustomAbbreviationNoRemoval(compound_tokens_lists, spl) ==
    IF compound_tokens_lists = <<>> THEN Append(compound_tokens_lists, spl)
    ELSE LET last_compound ==
                 compound_tokens_lists[Len(compound_tokens_lists)]
             last_type == last_compound.type
         IN IF last_compound.start < spl.start /\ spl.end < last_compound.end
            THEN compound_tokens_lists
            ELSE IF last_compound.end = spl.end
                 /\ "non_ending_abbreviation" \in Range(last_type)
            THEN compound_tokens_lists
            ELSE Append(compound_tokens_lists, spl)

\* Lines 427-459: the candidate against the last compound token.
AddCustomAbbreviation(compound_tokens_lists, spl) ==
    IF compound_tokens_lists = <<>> THEN Append(compound_tokens_lists, spl)
    ELSE LET last_compound ==
                 compound_tokens_lists[Len(compound_tokens_lists)]
             last_type == last_compound.type
         IN IF last_compound.start < spl.start /\ spl.end < last_compound.end
            THEN compound_tokens_lists
            ELSE IF last_compound.end = spl.end
                 /\ "non_ending_abbreviation" \notin Range(last_type)
            THEN Append(SubSeq(compound_tokens_lists, 1,
                               Len(compound_tokens_lists) - 1), spl)
            ELSE IF last_compound.end = spl.end
                 /\ "non_ending_abbreviation" \in Range(last_type)
            THEN compound_tokens_lists
            ELSE Append(compound_tokens_lists, spl)

\* Lines 397-459: CompoundTokenTagger._try_to_add_custom_abbreviation.
\* [lists, appended]: compound_tokens_lists after the call, and the
\* candidates the call appended.
try_to_add_custom_abbreviation(raw_text, tokens, token_id, compound_tokens_lists, custom_abbreviations, do_not_join_on_strings) ==
    LET token == TokenText(raw_text, tokens[token_id + 1])
        custom_abbreviation_found ==
            \E n \in 1..Len(custom_abbreviations) :
                custom_abbreviations[n] = token
        spl == CustomAbbreviationSpan(raw_text, tokens, token_id)
        lists == AddCustomAbbreviation(compound_tokens_lists, spl)
        unchanged == [lists |-> compound_tokens_lists, appended |-> <<>>]
    IN IF ~custom_abbreviation_found THEN unchanged
       ELSE IF Discard(do_not_join_on_strings,
                       Slice(raw_text, spl.start, spl.end))
       THEN unchanged
       ELSE [lists |-> lists,
             appended |-> IF lists # <<>> /\ lists[Len(lists)] = spl
                             /\ lists # compound_tokens_lists
                          THEN <<spl>> ELSE <<>>]

\* Lines 282-287: the index of the token that ends where the hint ends, from
\* token j on: <<>> (None) or <<index>>.
RECURSIVE FindEndToken(_, _, _, _)
FindEndToken(tokens, j, hint_end, end_token_index) ==
    IF j >= Len(tokens) THEN end_token_index
    ELSE IF tokens[j + 1].end = hint_end
    THEN FindEndToken(tokens, j + 1, hint_end, <<j>>)
    ELSE IF hint_end < tokens[j + 1].start THEN end_token_index
    ELSE FindEndToken(tokens, j + 1, hint_end, end_token_index)

\* Line 288, `if end_token_index:`: None and 0 are false.
IsTrue(end_token_index) == end_token_index # <<>> /\ end_token_index[1] # 0

\* Lines 280-307: the tokenization hint that starts with token i.
\* [lists, appended].
ApplyHint(tokens, i, tokenization_hints, compound_tokens_lists, custom_abbreviations) ==
    LET token_span == tokens[i + 1]
        unchanged == [lists |-> compound_tokens_lists, appended |-> <<>>]
    IN IF token_span.start \notin DOMAIN tokenization_hints THEN unchanged
       ELSE LET node == tokenization_hints[token_span.start]
                end_token_index == FindEndToken(tokens, i, node.end, <<>>)
            IN IF ~IsTrue(end_token_index) THEN unchanged
               ELSE LET spl == NewEnvelopingSpan(tokens, i,
                                   end_token_index[1] + 1,
                                   <<node.pattern_type>>, node.normalized)
                        last_compound ==
                            compound_tokens_lists[Len(compound_tokens_lists)]
                        add_compound_token ==
                            ~(/\ custom_abbreviations # <<>>
                              /\ compound_tokens_lists # <<>>
                              /\ last_compound.start <= spl.start
                              /\ spl.start < last_compound.end)
                    IN IF add_compound_token
                       THEN [lists |-> Append(compound_tokens_lists, spl),
                             appended |-> <<spl>>]
                       ELSE unchanged

\* _letter_pattern: the letters of the model's alphabet.
IsLetter(c) == c \in {"a", "s", "t"}

\* _letter_pattern.search(text_snippet).
HasLetter(text_snippet) ==
    \E k \in 1..Len(text_snippet) : IsLetter(text_snippet[k])

\* self.ignored_words, loaded from ignore.csv.
ignored_words == {<<"a", "-", "a">>}

\* MorphAnalyzedToken(word_text).normal: the word without its hyphens.
Normal(word_text) ==
    LET NotHyphen(c) == c # "-" IN SelectSeq(word_text, NotHyphen)

\* Lines 469-479: _normalize_word_with_hyphens.
normalize_word_with_hyphens(word_text) ==
    IF word_text \in ignored_words THEN <<>>
    ELSE IF Normal(word_text) = word_text THEN <<>>
    ELSE <<Normal(word_text)>>

\* Lines 311-325: the next hyphenation status, and hyphenation_start.
HyphenationStep(raw_text, token_span, i, hyphenation_status, hyphenation_start, last_end) ==
    LET adjacent == last_end = <<token_span.start>>
        hyphen == TokenText(raw_text, token_span) = <<"-">>
    IN IF hyphenation_status = None
       THEN IF adjacent /\ hyphen
            THEN [status |-> "-", start |-> hyphenation_start]
            ELSE [status |-> None, start |-> i]
       ELSE IF hyphenation_status = "-"
       THEN IF adjacent
            THEN [status |-> "second", start |-> hyphenation_start]
            ELSE [status |-> "end", start |-> hyphenation_start]
       ELSE IF hyphenation_status = "second"
       THEN IF adjacent /\ hyphen
            THEN [status |-> "-", start |-> hyphenation_start]
            ELSE [status |-> "end", start |-> hyphenation_start]
       ELSE [status |-> hyphenation_status, start |-> hyphenation_start]

\* Lines 310-342: hyphenation correction at token i.
\* [status, start, lists, appended].
Hyphenation(raw_text, tokens, i, hyphenation_status, hyphenation_start, last_end, compound_tokens_lists) ==
    LET step == HyphenationStep(raw_text, tokens[i + 1], i,
                                hyphenation_status, hyphenation_start,
                                last_end)
    IN IF step.status = "end" /\ step.start + 1 < i
       THEN LET hyp_start == tokens[step.start + 1].start
                hyp_end == tokens[i].end
                text_snippet == Slice(raw_text, hyp_start, hyp_end)
                spl == NewEnvelopingSpan(tokens, step.start, i,
                           <<"hyphenation">>,
                           normalize_word_with_hyphens(text_snippet))
            IN IF HasLetter(text_snippet)
               THEN [status |-> None, start |-> i,
                     lists |-> Append(compound_tokens_lists, spl),
                     appended |-> <<spl>>]
               ELSE [status |-> None, start |-> i,
                     lists |-> compound_tokens_lists, appended |-> <<>>]
       ELSE [status |-> step.status, start |-> step.start,
             lists |-> compound_tokens_lists, appended |-> <<>>]

\* Mutant of get_covered_tokens: with both flags loose every span is
\* covered.
get_covered_tokens_everything(start, end, left_strict, right_strict, spans) ==
    LET Covered(span) ==
            \/ /\ ~left_strict /\ right_strict
               /\ start <= span.end /\ span.end <= end
            \/ /\ left_strict /\ ~right_strict
               /\ start <= span.start /\ span.start <= end
            \/ /\ left_strict /\ right_strict
               /\ start <= span.start /\ span.end <= end
            \/ ~left_strict /\ ~right_strict
    IN SelectSeq(spans, Covered)

\* Lines 563-579: _get_covered_tokens.  With both flags loose no branch
\* appends anything.
get_covered_tokens(start, end, left_strict, right_strict, spans) ==
    LET Covered(span) ==
            \/ /\ ~left_strict /\ right_strict
               /\ start <= span.end /\ span.end <= end
            \/ /\ left_strict /\ ~right_strict
               /\ start <= span.start /\ span.start <= end
            \/ /\ left_strict /\ right_strict
               /\ start <= span.start /\ span.end <= end
    IN SelectSeq(spans, Covered)

\* Lines 587-597: _remove_overlapped_spans.
remove_overlapped_spans(compound_token_spans, regular_spans) ==
    LET NotOverlapped(regular_span) ==
            ~\E n \in 1..Len(compound_token_spans) :
                /\ compound_token_spans[n].start <= regular_span.start
                /\ regular_span.end <= compound_token_spans[n].end
    IN SelectSeq(regular_spans, NotOverlapped)

\* Lines 608-623: _insert_span, from index i of the list on.
RECURSIVE InsertSpanFrom(_, _, _, _, _)
InsertSpanFrom(span, spans, i, is_duplicate, discard_duplicate) ==
    IF i >= Len(spans)
    THEN IF ~discard_duplicate \/ ~is_duplicate
         THEN Append(spans, span) ELSE spans
    ELSE LET duplicate ==
                 \/ is_duplicate
                 \/ /\ span.start = spans[i + 1].start
                    /\ span.end = spans[i + 1].end
         IN IF span.end <= spans[i + 1].start
                /\ (~discard_duplicate \/ ~duplicate)
            THEN SubSeq(spans, 1, i) \o <<span>>
                     \o SubSeq(spans, i + 1, Len(spans))
            ELSE InsertSpanFrom(span, spans, i + 1, duplicate,
                                discard_duplicate)

insert_span(span, spans, discard_duplicate) ==
    InsertSpanFrom(span, spans, 0, FALSE, discard_duplicate)

\* The spans of the tokens layer, each with its index.
TokenSpans(tokens) ==
    [k \in 1..Len(tokens) |->
        [start |-> tokens[k].start, end |-> tokens[k].end, index |-> k - 1]]

\* Lines 634-639: all_covered_tokens.
RECURSIVE InsertTokens(_, _)
InsertTokens(token_spans, all_covered_tokens) ==
    IF token_spans = <<>> THEN all_covered_tokens
    ELSE InsertTokens(Tail(token_spans),
             insert_span(Head(token_spans), all_covered_tokens, TRUE))

RECURSIVE InsertCompoundTokens(_, _, _)
InsertCompoundTokens(tokens, compound_token_spans, all_covered_tokens) ==
    IF compound_token_spans = <<>> THEN all_covered_tokens
    ELSE LET spanlist == Head(compound_token_spans)
             its_tokens == [k \in 1..Len(spanlist.spans) |->
                               TokenSpans(tokens)[spanlist.spans[k] + 1]]
         IN InsertCompoundTokens(tokens, Tail(compound_token_spans),
                InsertTokens(its_tokens, all_covered_tokens))

\* Lines 642-651: the normalizations and the types of the compound tokens.
\* acc = [all_normalizations, all_types].
RECURSIVE GatherAttributes(_, _)
GatherAttributes(compound_token_spans, acc) ==
    IF compound_token_spans = <<>> THEN acc
    ELSE LET spanlist == Head(compound_token_spans)
             truthy == spanlist.normalized # <<>>
                           /\ spanlist.normalized[1] # <<>>
         IN GatherAttributes(Tail(compound_token_spans),
                [all_normalizations |->
                     IF truthy
                     THEN MapPut(acc.all_normalizations, spanlist.start,
                              [text |-> spanlist.normalized[1],
                               end |-> spanlist.end])
                     ELSE acc.all_normalizations,
                 all_types |-> acc.all_types \o spanlist.type])

\* ''.join(normalized).
RECURSIVE Join(_)
Join(pieces) == IF pieces = <<>> THEN <<>> ELSE Head(pieces) \o Join(Tail(pieces))

\* Lines 670-700: the normalized string is put together from position i on.
RECURSIVE Stitch(_, _, _, _, _, _)
Stitch(raw_text, all_normalizations, i, end_index, normalized, last_was_single_symbol) ==
    IF i >= end_index THEN normalized
    ELSE LET character == Slice(raw_text, i - 1, i)
             last == normalized[Len(normalized)]
             merge ==
                 /\ (i - 1) \in DOMAIN all_normalizations
                 /\ Len(normalized) > 0
                 /\ ~last_was_single_symbol
                 /\ Len(last) >= Len(character)
                 /\ SubSeq(last, Len(last) - Len(character) + 1, Len(last))
                        = character
                 /\ Len(all_normalizations[i - 1].text) >= Len(character)
                 /\ SubSeq(all_normalizations[i - 1].text, 1, Len(character))
                        = character
         IN IF merge
            THEN Stitch(raw_text, all_normalizations,
                     all_normalizations[i - 1].end, end_index,
                     Append(normalized, Tail(all_normalizations[i - 1].text)),
                     FALSE)
            ELSE IF i \in DOMAIN all_normalizations
            THEN Stitch(raw_text, all_normalizations,
                     all_normalizations[i].end, end_index,
                     Append(normalized, all_normalizations[i].text), FALSE)
            ELSE Stitch(raw_text, all_normalizations, i + 1, end_index,
                     Append(normalized, Slice(raw_text, i, i + 1)), TRUE)

\* list.remove(x): the list without the first occurrence of x.
RECURSIVE Remove(_, _)
Remove(list, x) ==
    IF list = <<>> THEN <<>>
    ELSE IF Head(list) = x THEN Tail(list)
    ELSE <<Head(list)>> \o Remove(Tail(list), x)

\* Lines 708-734: the two repairs on the types.
RepairTypes(all_types, full_string) ==
    LET first == IF /\ "non_ending_abbreviation" \in Range(all_types)
                    /\ "case_ending" \in Range(all_types)
                    /\ Len(full_string) >= 2
                    /\ SubSeq(full_string, Len(full_string) - 1,
                              Len(full_string)) = <<"s", "t">>
                 THEN Remove(all_types, "non_ending_abbreviation")
                 ELSE all_types
    IN IF /\ "sign" \in Range(first)
          /\ "hyphenation" \in Range(first)
          /\ IsLetter(full_string[1])
       THEN Remove(first, "sign")
       ELSE first

\* EnvelopingSpan(spans=...) over the tokens with the given indices.
EnvelopingSpanOver(tokens, indices, type, normalized) ==
    [start |-> tokens[indices[1] + 1].start,
     end |-> tokens[indices[Len(indices)] + 1].end,
     spans |-> indices, type |-> type, normalized |-> normalized]

\* Lines 631-736: _create_new_spanlist.
create_new_spanlist(raw_text, tokens, compound_token_spans, regular_spans, joining_span) ==
    LET all_covered_tokens ==
            InsertTokens(regular_spans,
                InsertCompoundTokens(tokens, compound_token_spans, <<>>))
        gathered == GatherAttributes(compound_token_spans,
                        [all_normalizations |-> EmptyMap, all_types |-> <<>>])
        all_types == gathered.all_types \o joining_span.pattern_type
        all_normalizations ==
            IF joining_span.normalized # <<>>
                 /\ joining_span.normalized[1] # <<>>
            THEN MapPut(gathered.all_normalizations, joining_span.start,
                     [text |-> joining_span.normalized[1],
                      end |-> joining_span.end])
            ELSE gathered.all_normalizations
        start_index == all_covered_tokens[1].start
        end_index == all_covered_tokens[Len(all_covered_tokens)].end
        normalized_str ==
            IF DOMAIN all_normalizations # {}
            THEN <<Join(Stitch(raw_text, all_normalizations, start_index,
                               end_index, <<>>, TRUE))>>
            ELSE <<>>
        full_string == Slice(raw_text, start_index, end_index)
    IN EnvelopingSpanOver(tokens,
           [k \in 1..Len(all_covered_tokens) |-> all_covered_tokens[k].index],
           IF all_types # <<>> THEN RepairTypes(all_types, full_string)
           ELSE <<"tokenization_hint">>,
           normalized_str)

\* Mutant of SecondLevelCovered: the strict boundaries are not tested.
SecondLevelCoveredUntested(raw_text, tokens, compound_tokens_lists, sp) ==
    LET covered_compound_tokens ==
            get_covered_tokens(sp.start, sp.end, sp.left_strict,
                               sp.right_strict, compound_tokens_lists)
    IN [covered_compound_tokens |-> covered_compound_tokens,
        covered_tokens |->
            remove_overlapped_spans(covered_compound_tokens,
                get_covered_tokens(sp.start, sp.end, sp.left_strict,
                                   sp.right_strict, TokenSpans(tokens))),
        constraints_satisfied |-> TRUE]

\* Lines 499-528: the compound tokens and the tokens hint sp covers, and
\* whether they satisfy its strict boundaries.
\* [covered_compound_tokens, covered_tokens, constraints_satisfied].
SecondLevelCovered(raw_text, tokens, compound_tokens_lists, sp) ==
    LET covered_compound_tokens ==
            get_covered_tokens(sp.start, sp.end, sp.left_strict,
                               sp.right_strict, compound_tokens_lists)
        covered_tokens ==
            remove_overlapped_spans(covered_compound_tokens,
                get_covered_tokens(sp.start, sp.end, sp.left_strict,
                                   sp.right_strict, TokenSpans(tokens)))
        leftmost1 == IF covered_tokens # <<>> THEN covered_tokens[1].start
                     ELSE Len(raw_text)
        leftmost2 == IF covered_compound_tokens # <<>>
                     THEN covered_compound_tokens[1].start
                     ELSE Len(raw_text)
        leftmost == Min(leftmost1, leftmost2)
        rightmost1 == IF covered_tokens # <<>>
                      THEN covered_tokens[Len(covered_tokens)].end ELSE -1
        rightmost2 == IF covered_compound_tokens # <<>>
                      THEN covered_compound_tokens[
                               Len(covered_compound_tokens)].end
                      ELSE -1
        rightmost == Max(rightmost1, rightmost2)
    IN [covered_compound_tokens |-> covered_compound_tokens,
        covered_tokens |-> covered_tokens,
        constraints_satisfied |->
            /\ ~(sp.left_strict /\ sp.start # leftmost)
            /\ ~(sp.right_strict /\ sp.end # rightmost)]

\* Lines 499-549: one hint sp of the second level.
SecondLevelHint(raw_text, tokens, compound_tokens_lists, sp, do_not_join_on_strings) ==
    LET got == SecondLevelCovered(raw_text, tokens, compound_tokens_lists, sp)
        covered_compound_tokens == got.covered_compound_tokens
        covered_tokens == got.covered_tokens
        spl == create_new_spanlist(raw_text, tokens, covered_compound_tokens,
                                   covered_tokens, sp)
    IN IF (covered_compound_tokens # <<>> \/ covered_tokens # <<>>)
            /\ got.constraints_satisfied
       THEN IF Discard(do_not_join_on_strings,
                       Slice(raw_text, spl.start, spl.end))
            THEN compound_tokens_lists
            ELSE insert_span(spl,
                     remove_overlapped_spans(covered_compound_tokens,
                                             compound_tokens_lists),
                     FALSE)
       ELSE compound_tokens_lists

\* Lines 492-552: _apply_2nd_level_compounding, from hint k on.
RECURSIVE apply_2nd_level_compounding(_, _, _, _, _, _)
apply_2nd_level_compounding(raw_text, tokens, compound_tokens_lists, span_list, k, do_not_join_on_strings) ==
    IF k > Len(span_list) THEN compound_tokens_lists
    ELSE apply_2nd_level_compounding(raw_text, tokens,
             SecondLevelHint(raw_text, tokens, compound_tokens_lists,
                             span_list[k], do_not_join_on_strings),
             span_list, k + 1, do_not_join_on_strings)

\* Lines 352-357: the ambiguous enveloping layer gets the candidate; a
\* candidate over the same tokens as a span of the layer becomes one more
\* annotation of that span.
AddCompoundToken(span_list, spl) ==
    LET annotation == [type |-> spl.type, normalized |-> spl.normalized]
    IN IF \E k \in 1..Len(span_list) : span_list[k].spans = spl.spans
       THEN [k \in 1..Len(span_list) |->
                IF span_list[k].spans = spl.spans
                THEN [span_list[k] EXCEPT
                         !.annotations = Append(@, annotation)]
                ELSE span_list[k]]
       ELSE InsertSorted([start |-> spl.start, end |-> spl.end,
                          spans |-> spl.spans,
                          annotations |-> <<annotation>>], span_list)

RECURSIVE AddCompoundTokens(_, _)
AddCompoundTokens(span_list, compound_tokens_lists) ==
    IF compound_tokens_lists = <<>> THEN span_list
    ELSE AddCompoundTokens(AddCompoundToken(span_list,
                                            Head(compound_tokens_lists)),
                           Tail(compound_tokens_lists))

\* Mutant of ResolveCompoundConflicts: equal candidates are kept.
ResolveCompoundConflictsKeepEqual(span_list) ==
    resolve_conflicts(span_list, "MAX", <<>>, TRUE)

\* Lines 359-362: resolve_conflicts with the strategy 'MAX', no priority
\* attribute and keep_equal=False.
ResolveCompoundConflicts(span_list) ==
    resolve_conflicts(span_list, "MAX", <<>>, FALSE)


\* Lines 364-365: the decorator takes the attributes of span[0].
disamb_decorator(span) ==
    [type |-> span.annotations[1].type,
     normalized |-> span.annotations[1].normalized]

\* Lines 366-372: DisambiguatingTagger makes one span with the decorator's
\* attributes of every span.
Disambiguate(span_list) ==
    [k \in 1..Len(span_list) |->
        [start |-> span_list[k].start, end |-> span_list[k].end,
         spans |-> span_list[k].spans,
         type |-> disamb_decorator(span_list[k]).type,
         normalized |-> disamb_decorator(span_list[k]).normalized]]

\* Lines 351-374.
Finalize(compound_tokens_lists) ==
    Disambiguate(ResolveCompoundConflicts(
        AddCompoundTokens(<<>>, compound_tokens_lists)))

\* --------------------------------------- CompoundTokenTagger: the inputs
\* The tokens layers of a text of length L: non-empty tokens in ascending
\* order that do not overlap.
RECURSIVE TokensFrom(_, _)
TokensFrom(p, L) ==
    {<<>>} \cup UNION {UNION {
        {<<[start |-> a, end |-> b]>> \o rest : rest \in TokensFrom(b, L)} :
            b \in (a + 1)..L} : a \in p..(L - 1)}

Tokenizations(L) == TokensFrom(0, L)

\* Position p of the text lies in a token.
InToken(tokens, p) ==
    \E k \in 1..Len(tokens) : tokens[k].start <= p /\ p < tokens[k].end

\* The texts that go with a tokens layer: the tokens are made of the given
\* characters and everything between the tokens is blank.
TextsOf(tokens, chars) ==
    {text \in [1..MaxTextLen -> chars \cup {" "}] :
        \A p \in 1..MaxTextLen : text[p] = " " <=> ~InToken(tokens, p - 1)}

\* A hint of the first level, with the attributes of its pattern.
Hint(a, b, pattern_type) ==
    [start |-> a, end |-> b, pattern_type |-> pattern_type,
     normalized |-> IF pattern_type = "numeric" THEN <<<<"1">>>> ELSE <<>>]

HintsOf(pattern_types) ==
    {Hint(a, b, t) : a \in 0..MaxTextLen, b \in 0..MaxTextLen,
                     t \in pattern_types}

\* A hint of the second level, with the attributes of its pattern.
SecondLevelHints ==
    {[start |-> a, end |-> b, pattern_type |-> t,
      normalized |-> IF t = <<>> THEN <<>> ELSE <<<<"a">>>>,
      left_strict |-> ls, right_strict |-> rs] :
        a \in 0..MaxTextLen, b \in 0..MaxTextLen,
        t \in {<<>>, <<"case_ending">>}, ls \in BOOLEAN, rs \in BOOLEAN}

\* No hints of the first level, no second level: custom abbreviations and
\* hyphenations on tokens of letters, hyphens and full stops.
SweepInputs ==
    /\ ct_tokens \in Tokenizations(MaxTextLen)
    /\ ct_raw_text \in TextsOf(ct_tokens, {"a", "-", "."})
    /\ ct_hints_1 = <<>>
    /\ ct_tagger_2 = <<>>
    /\ ct_custom_abbreviations \in {<<>>, <<<<"a">>>>}
    /\ ct_do_not_join_on_strings \in {<<>>, <<<<"-">>>>}
    /\ ct_tag_hyphenations \in BOOLEAN

\* One or two hints of the first level, two of them in ascending order.
HintInputs ==
    /\ ct_tokens \in Tokenizations(MaxTextLen)
    /\ ct_raw_text \in TextsOf(ct_tokens, {"a"})
    /\ ct_hints_1 \in
           LET hints == {h \in HintsOf({"numeric",
                                        "negative:temperature_unit"}) :
                            h.start < h.end}
           IN {<<h>> : h \in hints}
                  \cup {p \in hints \X hints : SpanLess(p[1], p[2])}
    /\ ct_tagger_2 = <<>>
    /\ ct_custom_abbreviations = <<>>
    /\ ct_do_not_join_on_strings \in {<<>>, <<<<" ">>>>}
    /\ ct_tag_hyphenations = TRUE

\* A custom abbreviation and one hint of the first level.
AbbreviationInputs ==
    /\ ct_tokens \in Tokenizations(MaxTextLen)
    /\ ct_raw_text \in TextsOf(ct_tokens, {"a", "."})
    /\ ct_hints_1 \in
           {<<h>> : h \in {x \in HintsOf({"numeric",
                                          "non_ending_abbreviation"}) :
                              x.start < x.end}}
    /\ ct_tagger_2 = <<>>
    /\ ct_custom_abbreviations = <<<<"a">>>>
    /\ ct_do_not_join_on_strings \in {<<>>, <<<<".">>>>}
    /\ ct_tag_hyphenations = TRUE

\* Hyphenations and one hint of the second level.
SecondLevelInputs ==
    /\ ct_tokens \in Tokenizations(MaxTextLen)
    /\ ct_raw_text \in TextsOf(ct_tokens, {"a", "-"})
    /\ ct_hints_1 = <<>>
    /\ ct_tagger_2 \in {<<<<>>>>}
           \cup {<<<<h>>>> : h \in {x \in SecondLevelHints :
                                       x.start < x.end}}
    /\ ct_custom_abbreviations = <<>>
    /\ ct_do_not_join_on_strings = <<>>
    /\ ct_tag_hyphenations = TRUE

\* Custom abbreviations 's' and 't', and one hint of the second level of
\* the type case_ending with both boundaries strict.
CaseEndingInputs ==
    /\ ct_tokens \in Tokenizations(MaxTextLen)
    /\ ct_raw_text \in TextsOf(ct_tokens, {"s", "t"})
    /\ ct_hints_1 = <<>>
    /\ ct_tagger_2 \in
           {<<<<h>>>> : h \in {x \in SecondLevelHints :
                                 /\ x.start < x.end
                                 /\ x.pattern_type = <<"case_ending">>
                                 /\ x.left_strict /\ x.right_strict}}
    /\ ct_custom_abbreviations = <<<<"s">>, <<"t">>>>
    /\ ct_do_not_join_on_strings = <<>>
    /\ ct_tag_hyphenations = TRUE

\* Hyphenations, one hint of the first level for a sign of one character,
\* and one hint of the second level without a type, its right boundary
\* strict.
SignInputs ==
    /\ ct_tokens \in Tokenizations(MaxTextLen)
    /\ ct_raw_text \in TextsOf(ct_tokens, {"a", "-"})
    /\ ct_hints_1 \in {<<h>> : h \in {x \in HintsOf({"sign"}) :
                                        x.end = x.start + 1}}
    /\ ct_tagger_2 \in
           {<<<<h>>>> : h \in {x \in SecondLevelHints :
                                 /\ x.start < x.end
                                 /\ x.pattern_type = <<>>
                                 /\ x.right_strict}}
    /\ ct_custom_abbreviations = <<>>
    /\ ct_do_not_join_on_strings = <<>>
    /\ ct_tag_hyphenations = TRUE

CompoundInit ==
    /\ ct_pc = "hints"
    /\ \/ SweepInputs
       \/ HintInputs
       \/ AbbreviationInputs
       \/ SecondLevelInputs
       \/ CaseEndingInputs
       \/ SignInputs
    /\ ct_tokenization_hints = EmptyMap
    /\ ct_compound_tokens_lists = <<>>
    /\ ct_i = 0
    /\ ct_hyphenation_status = None
    /\ ct_hyphenation_start = -1
    /\ ct_last_end = <<>>
    /\ ct_appended = <<>>
    /\ ct_swept = <<>>
    /\ ct_layer = <<>>
    /\ ct_error = None

CompoundIdle ==
    /\ ct_pc = "idle"
    /\ ct_raw_text = <<>>
    /\ ct_tokens = <<>>
    /\ ct_hints_1 = <<>>
    /\ ct_tagger_2 = <<>>
    /\ ct_custom_abbreviations = <<>>
    /\ ct_do_not_join_on_strings = <<>>
    /\ ct_tag_hyphenations = FALSE
    /\ ct_tokenization_hints = EmptyMap
    /\ ct_compound_tokens_lists = <<>>
    /\ ct_i = 0
    /\ ct_hyphenation_status = None
    /\ ct_hyphenation_start = -1
    /\ ct_last_end = <<>>
    /\ ct_appended = <<>>
    /\ ct_swept = <<>>
    /\ ct_layer = <<>>
    /\ ct_error = None

ctInputs == <<ct_raw_text, ct_tokens, ct_hints_1, ct_tagger_2,
              ct_custom_abbreviations, ct_do_not_join_on_strings,
              ct_tag_hyphenations>>

\* ------------------------------------- CompoundTokenTagger: _make_layer
\* Lines 235-265: the hints of the first level are collected, or the call
\* raises.
CompoundHints ==
    /\ CompoundFrame
    /\ ct_pc = "hints"
    /\ LET got == CollectHints(ct_hints_1, 1, ct_raw_text,
                      ct_do_not_join_on_strings,
                      [error |-> None, tokenization_hints |-> EmptyMap])
       IN /\ ct_tokenization_hints' = got.tokenization_hints
          /\ ct_error' = got.error
          /\ ct_pc' = IF got.error # None THEN "raised" ELSE "sweep"
    /\ UNCHANGED <<ctInputs, ct_compound_tokens_lists, ct_i,
                   ct_hyphenation_status, ct_hyphenation_start, ct_last_end,
                   ct_appended, ct_swept, ct_layer>>

\* Lines 271-343: one round of the loop over the tokens.
CompoundToken ==
    /\ CompoundFrame
    /\ ct_pc = "sweep"
    /\ ct_i < Len(ct_tokens)
    /\ LET abbreviated ==
               IF ct_custom_abbreviations # <<>>
               THEN try_to_add_custom_abbreviation(ct_raw_text, ct_tokens,
                        ct_i, ct_compound_tokens_lists,
                        ct_custom_abbreviations, ct_do_not_join_on_strings)
               ELSE [lists |-> ct_compound_tokens_lists, appended |-> <<>>]
           hinted == ApplyHint(ct_tokens, ct_i, ct_tokenization_hints,
                               abbreviated.lists, ct_custom_abbreviations)
           hyphenated ==
               IF ct_tag_hyphenations
               THEN Hyphenation(ct_raw_text, ct_tokens, ct_i,
                        ct_hyphenation_status, ct_hyphenation_start,
                        ct_last_end, hinted.lists)
               ELSE [status |-> ct_hyphenation_status,
                     start |-> ct_hyphenation_start,
                     lists |-> hinted.lists, appended |-> <<>>]
       IN /\ ct_compound_tokens_lists' = hyphenated.lists
          /\ ct_hyphenation_status' = hyphenated.status
          /\ ct_hyphenation_start' = hyphenated.start
          /\ ct_appended' = ct_appended \o abbreviated.appended
                                \o hinted.appended \o hyphenated.appended
    /\ ct_last_end' = <<ct_tokens[ct_i + 1].end>>
    /\ ct_i' = ct_i + 1
    /\ UNCHANGED <<ctInputs, ct_tokenization_hints, ct_swept, ct_layer,
                   ct_error, ct_pc>>

\* Lines 345-349: the loop is over; the second level is applied if there
\* is a tagger for it.
CompoundSecondLevel ==
    /\ CompoundFrame
    /\ ct_pc = "sweep"
    /\ ct_i = Len(ct_tokens)
    /\ ct_swept' = ct_compound_tokens_lists
    /\ ct_compound_tokens_lists' =
           IF ct_tagger_2 # <<>>
           THEN apply_2nd_level_compounding(ct_raw_text, ct_tokens,
                    ct_compound_tokens_lists, ct_tagger_2[1], 1,
                    ct_do_not_join_on_strings)
           ELSE ct_compound_tokens_lists
    /\ ct_pc' = "final"
    /\ UNCHANGED <<ctInputs, ct_tokenization_hints, ct_i,
                   ct_hyphenation_status, ct_hyphenation_start, ct_last_end,
                   ct_appended, ct_layer, ct_error>>

\* Lines 351-374: the layer is made and returned.
CompoundFinalize ==
    /\ CompoundFrame
    /\ ct_pc = "final"
    /\ ct_layer' = Finalize(ct_compound_tokens_lists)
    /\ ct_pc' = "done"
    /\ UNCHANGED <<ctInputs, ct_tokenization_hints, ct_compound_tokens_lists,
                   ct_i, ct_hyphenation_status, ct_hyphenation_start,
                   ct_last_end, ct_appended, ct_swept, ct_error>>

CompoundNext ==
    CompoundHints \/ CompoundToken \/ CompoundSecondLevel \/ CompoundFinalize

\* ------------------------------------------------------------ PgCollection
\* The collection as one connection sees it: the layer tables that exist,
\* their rows, and the rows of the structure table in the order SELECT
\* returns them.  A structure row is what _get_structure keeps of a layer:
\* [layer_name, detached, parent, enveloping, base].  The connection is
\* [autocommit, saved]: saved holds the database as it was when the open
\* transaction began, <<>> when no transaction is in progress.
\* A call's state is [db, structure, conn, dropped, error]: structure is
\* self._structure, dropped lists the DROP TABLE statements executed for
\* layers, error is None or the name of the exception that propagates.

PgLayerOrder == <<"a", "b", "c">>

PgLayerNames == {PgLayerOrder[k] : k \in 1..Len(PgLayerOrder)}

PgRank(n) == CHOOSE k \in 1..Len(PgLayerOrder) : PgLayerOrder[k] = n

PgLower(n) == {m \in PgLayerNames : PgRank(m) < PgRank(n)}

AttachedRow ==
    [layer_name |-> "words", detached |-> FALSE, parent |-> None, enveloping |-> None, base |-> None]

MaxPgRows == 2

DefaultBufferSize == 10000

layer_columns == <<"id", "text_id", "data">>

\* get_query_length: the number of characters of a query, a query being the
\* sequence of its characters' carriers (one entry per rendered value).
get_query_length(q) == Len(q)

LayerValues(collection_id) == <<"DEFAULT", collection_id, "layer_json">>

get_structure(db) == db.structure

has_layer(structure, layer_name) ==
    \E k \in 1..Len(structure) : structure[k].layer_name = layer_name

StructOf(structure, layer_name) ==
    structure[CHOOSE k \in 1..Len(structure) : structure[k].layer_name = layer_name]

\* psycopg2: a statement commits at once under autocommit, otherwise it opens
\* a transaction (status STATUS_BEGIN) unless one is in progress.
Execute(st, db) ==
    [st EXCEPT !.db = db,
               !.conn.saved = IF st.conn.autocommit \/ @ # <<>> THEN @ ELSE <<st.db>>]

\* conn.rollback(): undoes the transaction in progress; does nothing when
\* there is none.  self._structure is not reloaded.
Rollback(st) ==
    IF st.conn.saved = <<>> THEN st
    ELSE [st EXCEPT !.db = st.conn.saved[1], !.conn.saved = <<>>]

Commit(st) == [st EXCEPT !.conn.saved = <<>>]

Raise(st, exception) == [st EXCEPT !.error = exception]

drop_table(st, layer_name) ==
    IF layer_name \notin st.db.tables THEN Raise(st, "ProgrammingError")
    ELSE [Execute(st, [st.db EXCEPT !.tables = @ \ {layer_name}, !.rows[layer_name] = <<>>])
             EXCEPT !.dropped = Append(@, layer_name)]

delete_from_structure(st, layer_name) ==
    LET deleted == Execute(st, [st.db EXCEPT !.structure = SelectSeq(@, LAMBDA r : r.layer_name # layer_name)])
    IN  [deleted EXCEPT !.structure = get_structure(deleted.db)]

\* layer_name is the primary key of the structure table.
insert_into_structure(st, layer) ==
    IF has_layer(st.db.structure, layer.layer_name) THEN Raise(st, "IntegrityError")
    ELSE LET inserted == Execute(st, [st.db EXCEPT !.structure = Append(@, layer)])
         IN  [inserted EXCEPT !.structure = get_structure(inserted.db)]

RECURSIVE delete_layer(_, _, _)
RECURSIVE delete_layer_loop(_, _, _, _, _)

\* The for loop of delete_layer from its k-th item on; items is the
\* dictionary the loop began with, which the nested calls do not change
\* (they rebind self._structure to a new dictionary).
delete_layer_loop(st, items, k, layer_name, cascade) ==
    IF st.error # None \/ k > Len(items) THEN st
    ELSE LET struct == items[k]
         IN  IF struct.layer_name = layer_name
                 THEN delete_layer_loop(st, items, k + 1, layer_name, cascade)
             ELSE IF layer_name \in {struct.enveloping, struct.parent, struct.base}
                 THEN IF cascade
                          THEN delete_layer_loop(delete_layer(st, struct.layer_name, TRUE),
                                                 items, k + 1, layer_name, cascade)
                          ELSE Raise(st, "PgCollectionException")
             ELSE delete_layer_loop(st, items, k + 1, layer_name, cascade)

\* The two messages of lines 1004 and 1006 are formatted with '{!}', which
\* str.format rejects: the exception that leaves is a ValueError.
delete_layer(st, layer_name, cascade) ==
    IF ~has_layer(st.structure, layer_name) THEN Raise(st, "ValueError")
    ELSE IF ~StructOf(st.structure, layer_name).detached THEN Raise(st, "ValueError")
    ELSE LET looped == delete_layer_loop(st, st.structure, 1, layer_name, cascade)
         IN  IF looped.error # None THEN looped
             ELSE LET dropped == drop_table(looped, layer_name)
                  IN  IF dropped.error # None THEN dropped
                      ELSE delete_from_structure(dropped, layer_name)

create_layer_table(st, layer_name, overwrite) ==
    IF ~overwrite /\ layer_name \in st.db.tables THEN Raise(st, "PgCollectionException")
    ELSE LET cleared == IF overwrite
                            THEN Execute(st, [st.db EXCEPT !.tables = @ \ {layer_name}, !.rows[layer_name] = <<>>])
                            ELSE st
         IN  Execute(cleared, [cleared.db EXCEPT !.tables = @ \cup {layer_name}, !.rows[layer_name] = <<>>])

\* The state of a buffered_layer_insert block is [st, buffer, query_length,
\* structure_written].
flush_layer_insert_buffer(ls, layer_name) ==
    IF ls.buffer = <<>> THEN ls
    ELSE IF layer_name \notin ls.st.db.tables
        THEN [ls EXCEPT !.st = Raise(@, "ProgrammingError")]
    ELSE [ls EXCEPT !.st = Execute(@, [@.db EXCEPT !.rows[layer_name] = @ \o ls.buffer]),
                    !.buffer = <<>>,
                    !.query_length = get_query_length(layer_columns)]

buffered_insert(ls, values, layer_name, query_length_limit) ==
    LET appended == [ls EXCEPT !.buffer = Append(@, values),
                               !.query_length = @ + get_query_length(values)]
    IN  IF Len(appended.buffer) >= DefaultBufferSize \/ appended.query_length >= query_length_limit
            THEN flush_layer_insert_buffer(appended, layer_name)
            ELSE appended

RECURSIVE InsertData(_, _, _)

\* The loop over data_iterator from its k-th row on, one record per row;
\* the row mapper raises on row call.fail_at.
InsertData(ls, k, call) ==
    IF k > call.rows THEN ls
    ELSE IF call.fail_at = k THEN [ls EXCEPT !.st = Raise(@, "RowMapperError")]
    ELSE LET inserted == buffered_insert(ls, LayerValues(k), call.layer_name, call.query_length_limit)
             written == IF inserted.structure_written \/ inserted.st.error # None THEN inserted
                        ELSE [inserted EXCEPT !.st = insert_into_structure(@, call.layer),
                                              !.structure_written = TRUE]
         IN  IF written.st.error # None THEN written ELSE InsertData(written, k + 1, call)

\* The with block of buffered_layer_insert: its finally clause flushes the
\* buffer and switches autocommit off, also when an exception passes.
buffered_layer_insert(st, call, structure_written) ==
    LET entered == [st |-> st, buffer |-> <<>>, query_length |-> get_query_length(layer_columns),
                    structure_written |-> structure_written]
        left == InsertData(entered, 1, call)
        flushed == flush_layer_insert_buffer(left, call.layer_name)
    IN  IF left.st.error = None /\ flushed.st.error # None THEN flushed.st
        ELSE [flushed.st EXCEPT !.conn.autocommit = FALSE]

\* The try block of create_layer (lines 862-899).
create_layer_try(st, call) ==
    LET autocommitted == [st EXCEPT !.conn.autocommit = TRUE]
        tabled == IF call.mode \in {"new", "overwrite"}
                      THEN create_layer_table(autocommitted, call.layer_name, call.mode = "overwrite")
                      ELSE autocommitted
    IN  IF tabled.error # None THEN tabled
        ELSE buffered_layer_insert(tabled, call, call.mode = "append")

create_layer(st, call) ==
    LET checked == IF has_layer(st.structure, call.layer_name)
                       THEN IF call.mode = "overwrite" THEN delete_layer(st, call.layer_name, TRUE)
                            ELSE IF call.mode = "append" THEN st
                            ELSE Raise(st, "PgCollectionException")
                   ELSE IF call.mode = "append" THEN Raise(st, "PgCollectionException")
                   ELSE st
        tried == create_layer_try(checked, call)
        handled == IF tried.error # None THEN Rollback(tried) ELSE tried
        committed == IF handled.conn.saved # <<>> THEN Commit(handled) ELSE handled
    IN  IF checked.error # None THEN checked
        ELSE [committed EXCEPT !.conn.autocommit = TRUE]

\* The detached layers a collection can hold: each one depends only on
\* layers of lower rank that the collection holds too.
PgRowsOf(n, S) ==
    {[layer_name |-> n, detached |-> TRUE, parent |-> p, enveloping |-> e, base |-> b] :
        p \in {None} \cup (S \cap PgLower(n)),
        e \in {None} \cup (S \cap PgLower(n)),
        b \in {None} \cup (S \cap PgLower(n))}

PgStructuresOf(S) ==
    {s \in [1..Cardinality(S) -> UNION {PgRowsOf(n, S) : n \in S}] :
        /\ \A j, k \in 1..Cardinality(S) : j # k => s[j].layer_name # s[k].layer_name
        /\ \A k \in 1..Cardinality(S) : s[k].parent = None \/ s[k].enveloping = None}

PgStructures ==
    {<<AttachedRow>> \o s : s \in UNION {PgStructuresOf(S) : S \in SUBSET PgLayerNames}}

\* The database of a collection whose structure is s: every detached layer
\* has its table, filled from one text.
PgDatabase(s) ==
    [tables |-> {s[k].layer_name : k \in {j \in 1..Len(s) : s[j].detached}},
     rows |-> [n \in PgLayerNames |->
                  IF \E k \in 1..Len(s) : s[k].layer_name = n THEN <<LayerValues(0)>> ELSE <<>>],
     structure |-> s]

NoCall ==
    [op |-> None, layer_name |-> None, mode |-> None, cascade |-> FALSE, layer |-> AttachedRow,
     rows |-> 0, fail_at |-> 0, query_length_limit |-> 0]

\* Calls of create_layer: the data iterator yields call.rows rows; fail_at
\* is the row on which the row mapper raises, 0 when it never does.
CreateCallsOf(n) ==
    {[op |-> "create_layer", layer_name |-> n, mode |-> m, cascade |-> FALSE,
      layer |-> [layer_name |-> n, detached |-> TRUE, parent |-> p, enveloping |-> None, base |-> None],
      rows |-> r[1], fail_at |-> r[2], query_length_limit |-> q] :
        m \in {"new", "overwrite", "append"}, p \in {None} \cup PgLower(n),
        r \in {x \in (0..MaxPgRows) \X (0..MaxPgRows) : x[2] <= x[1]},
        q \in {get_query_length(layer_columns) + get_query_length(LayerValues(0)),
               get_query_length(layer_columns) + (MaxPgRows + 1) * get_query_length(LayerValues(0))}}

CreateCalls == UNION {CreateCallsOf(n) : n \in PgLayerNames}

DeleteCalls ==
    {[NoCall EXCEPT !.op = "delete_layer", !.layer_name = n, !.cascade = c] :
        n \in PgLayerNames \cup {AttachedRow.layer_name}, c \in BOOLEAN}

PgState(db, structure, conn) ==
    [db |-> db, structure |-> structure, conn |-> conn, dropped |-> <<>>, error |-> None]

PgInit ==
    /\ pg_pc = "ready"
    /\ pg_structure \in PgStructures
    /\ pg_db = PgDatabase(pg_structure)
    /\ pg_conn = [autocommit |-> TRUE, saved |-> <<>>]
    /\ pg_call = NoCall
    /\ pg_before = pg_db
    /\ pg_dropped = <<>>
    /\ pg_error = None

PgIdle ==
    /\ pg_pc = "idle"
    /\ pg_structure = <<>>
    /\ pg_db = PgDatabase(<<>>)
    /\ pg_conn = [autocommit |-> TRUE, saved |-> <<>>]
    /\ pg_call = NoCall
    /\ pg_before = pg_db
    /\ pg_dropped = <<>>
    /\ pg_error = None

PgReturn(call, st) ==
    /\ pg_pc' = "done"
    /\ pg_call' = call
    /\ pg_before' = pg_db
    /\ pg_db' = st.db
    /\ pg_structure' = st.structure
    /\ pg_conn' = st.conn
    /\ pg_dropped' = st.dropped
    /\ pg_error' = st.error

PgCreateLayer ==
    /\ PgFrame
    /\ pg_pc = "ready"
    /\ \E call \in CreateCalls : PgReturn(call, create_layer(PgState(pg_db, pg_structure, pg_conn), call))

PgDeleteLayer ==
    /\ PgFrame
    /\ pg_pc = "ready"
    /\ \E call \in DeleteCalls :
           PgReturn(call, delete_layer(PgState(pg_db, pg_structure, pg_conn), call.layer_name, call.cascade))

PgNext == PgCreateLayer \/ PgDeleteLayer

\* ------------------------------------------------------ PgCollection.insert
\* One with-block of PgCollection.insert.  bi_structure is what the
\* structure checks of _buffered_insert look at: "None" (no structure yet),
\* "attached" (attached layers only) or "detached" (a detached layer exists).
\* A text is [key, layers_match, chars]; its row is the rendered query.
\* bi_passed lists the rows of the calls that returned, bi_table the rows
\* written to the collection table, bi_flushed whether the last call flushed.

MaxInsertCalls == 3

MaxInsertChars == 2

BufferSizes == {0, 1, 2, MaxInsertCalls + 1}

QueryLengthLimits == {0, MaxInsertChars + 2, (MaxInsertCalls + 1) * (MaxInsertChars + 1)}

InsertTexts(key) ==
    {[key |-> key, layers_match |-> m, chars |-> [k \in 1..n |-> "x"]] :
        m \in BOOLEAN, n \in 1..MaxInsertChars}

InsertRow(text) == <<text.key>> \o text.chars

\* The state of a block is [structure, buffer, query_length, table, error,
\* flushed].
flush_insert_buffer_keeping(bs) ==
    IF Len(bs.buffer) = 0 THEN bs
    ELSE [bs EXCEPT !.table = @ \o bs.buffer, !.flushed = TRUE]

flush_insert_buffer(bs) ==
    IF Len(bs.buffer) = 0 THEN bs
    ELSE [bs EXCEPT !.table = @ \o bs.buffer, !.buffer = <<>>, !.flushed = TRUE]

\* _buffered_insert, called through wrap_buffered_insert.
wrap_buffered_insert(bs, text, buffer_size, query_length_limit) ==
    IF bs.structure = "detached" THEN [bs EXCEPT !.error = "PgCollectionException"]
    ELSE IF bs.structure = "attached" /\ ~text.layers_match THEN [bs EXCEPT !.error = "AssertionError"]
    ELSE LET appended == [bs EXCEPT !.structure = "attached",
                                    !.query_length = @ + get_query_length(InsertRow(text)),
                                    !.buffer = Append(@, InsertRow(text))]
         IN  IF Len(appended.buffer) >= buffer_size \/ appended.query_length >= query_length_limit
                 THEN [flush_insert_buffer(appended) EXCEPT !.query_length = 0]
                 ELSE appended

BlockState ==
    [structure |-> bi_structure, buffer |-> bi_buffer, query_length |-> bi_query_length,
     table |-> bi_table, error |-> None, flushed |-> FALSE]

InsertInit ==
    /\ bi_pc = "block"
    /\ bi_structure \in {"None", "attached", "detached"}
    /\ bi_buffer_size \in BufferSizes
    /\ bi_query_length_limit \in QueryLengthLimits
    /\ bi_buffer = <<>>
    /\ bi_query_length = 0
    /\ bi_table = <<>>
    /\ bi_passed = <<>>
    /\ bi_calls = 0
    /\ bi_flushed = <<>>
    /\ bi_exception = None

InsertIdle ==
    /\ bi_pc = "idle"
    /\ bi_structure = "None"
    /\ bi_buffer_size = 0
    /\ bi_query_length_limit = 0
    /\ bi_buffer = <<>>
    /\ bi_query_length = 0
    /\ bi_table = <<>>
    /\ bi_passed = <<>>
    /\ bi_calls = 0
    /\ bi_flushed = <<>>
    /\ bi_exception = None

\* A call of the yielded function inside the block; an exception it raises
\* is left in bi_exception, and the block goes on or exits.
InsertCall ==
    /\ InsertFrame
    /\ bi_pc = "block"
    /\ bi_calls < MaxInsertCalls
    /\ \E text \in InsertTexts(bi_calls + 1) :
           LET called == wrap_buffered_insert(BlockState, text, bi_buffer_size, bi_query_length_limit)
           IN  /\ bi_structure' = called.structure
               /\ bi_buffer' = called.buffer
               /\ bi_query_length' = called.query_length
               /\ bi_table' = called.table
               /\ bi_exception' = called.error
               /\ bi_flushed' = <<called.flushed>>
               /\ bi_passed' = IF called.error = None THEN Append(bi_passed, InsertRow(text)) ELSE bi_passed
    /\ bi_calls' = bi_calls + 1
    /\ UNCHANGED <<bi_pc, bi_buffer_size, bi_query_length_limit>>

\* The block ends, normally or through an exception: the finally clause of
\* insert flushes the buffer.
InsertExit ==
    /\ InsertFrame
    /\ bi_pc = "block"
    /\ LET flushed == flush_insert_buffer(BlockState)
       IN  /\ bi_buffer' = flushed.buffer
           /\ bi_table' = flushed.table
    /\ bi_exception' \in {None, "Exception"}
    /\ bi_pc' = "exited"
    /\ UNCHANGED <<bi_structure, bi_buffer_size, bi_query_length_limit, bi_query_length,
                   bi_passed, bi_calls, bi_flushed>>

InsertNext == InsertCall \/ InsertExit

\* ---------------------------------------------------------- specifications
vars == <<gtVars, exVars, lkVars, sbVars, ctVars, rcVars, pgVars, biVars>>

\* GapTagger.tag on its own: nothing else runs.
SpecGapInit ==
    GapInit /\ ExcerptIdle /\ KeepIdle /\ SplitIdle /\ CompoundIdle
        /\ ResolveIdle /\ PgIdle /\ InsertIdle
SpecGap == SpecGapInit /\ [][GapNext]_vars

\* excerpt on its own.
SpecExcerptInit ==
    ExcerptInit /\ GapIdle /\ KeepIdle /\ SplitIdle /\ CompoundIdle
        /\ ResolveIdle /\ PgIdle /\ InsertIdle
SpecExcerpt == SpecExcerptInit /\ [][ExcerptNext]_vars

\* layers_to_keep_default on its own.
SpecKeepInit ==
    KeepInit /\ GapIdle /\ ExcerptIdle /\ SplitIdle /\ CompoundIdle
        /\ ResolveIdle /\ PgIdle /\ InsertIdle
SpecKeep == SpecKeepInit /\ [][KeepNext]_vars

\* split_by on its own.
SpecSplitInit ==
    SplitInit /\ GapIdle /\ ExcerptIdle /\ KeepIdle /\ CompoundIdle
        /\ ResolveIdle /\ PgIdle /\ InsertIdle
SpecSplit == SpecSplitInit /\ [][SplitNext]_vars

\* resolve_conflicts on its own.
SpecResolveInit ==
    ResolveInit /\ GapIdle /\ ExcerptIdle /\ KeepIdle /\ SplitIdle
        /\ CompoundIdle /\ PgIdle /\ InsertIdle
SpecResolve == SpecResolveInit /\ [][ResolveNext]_vars

\* CompoundTokenTagger._make_layer on its own.
SpecCompoundInit ==
    CompoundInit /\ GapIdle /\ ExcerptIdle /\ KeepIdle /\ SplitIdle
        /\ ResolveIdle /\ PgIdle /\ InsertIdle
SpecCompound == SpecCompoundInit /\ [][CompoundNext]_vars

\* PgCollection.create_layer and delete_layer on their own.
SpecPgInit ==
    PgInit /\ GapIdle /\ ExcerptIdle /\ KeepIdle /\ SplitIdle
        /\ CompoundIdle /\ ResolveIdle /\ InsertIdle
SpecPg == SpecPgInit /\ [][PgNext]_vars

\* PgCollection.insert on its own.
SpecInsertInit ==
    InsertInit /\ GapIdle /\ ExcerptIdle /\ KeepIdle /\ SplitIdle
        /\ CompoundIdle /\ ResolveIdle /\ PgIdle
SpecInsert == SpecInsertInit /\ [][InsertNext]_vars

\* ------------------------------------------------------ GapTagger: claims
\* Position p of the text lies in some span of some source layer.
GapCovered(p) ==
    \E i \in 1..Len(gt_layers) : \E j \in 1..Len(gt_layers[i]) :
        gt_layers[i][j].start <= p /\ p < gt_layers[i][j].end

\* The maximal non-empty intervals <<a, b>> of [0, L) no source span covers.
MaximalGaps ==
    LET L == Len(gt_text)
    IN {m \in (0..L) \X (0..L) :
          /\ m[1] < m[2]
          /\ \A p \in m[1]..(m[2] - 1) : ~GapCovered(p)
          /\ m[1] = 0 \/ GapCovered(m[1] - 1)
          /\ m[2] = L \/ GapCovered(m[2])}

GapHasText(m) == \E p \in m[1]..(m[2] - 1) : ~IsSpace(gt_text[p + 1])

\* C1: without trim, the finished output layer's spans are, in ascending
\* order, exactly the maximal non-empty intervals of [0, L) that no source
\* span covers; so every position is in a source span or in exactly one gap,
\* never in both.
C1_GapsAreComplement ==
    (gt_pc = "done" /\ ~gt_trim) =>
        /\ {<<gt_gaps[i].start, gt_gaps[i].end>> : i \in 1..Len(gt_gaps)}
               = MaximalGaps
        /\ \A i \in 1..Len(gt_gaps) - 1 :
               gt_gaps[i].end <= gt_gaps[i + 1].start
        /\ \A p \in 0..Len(gt_text) - 1 :
               LET in == {i \in 1..Len(gt_gaps) :
                            gt_gaps[i].start <= p /\ p < gt_gaps[i].end}
               IN Cardinality(in) = IF GapCovered(p) THEN 0 ELSE 1

\* C1 witness: the run of test_gaps has finished with its four gaps, two of
\* them between spans that coincide or nest across the two layers.
C1_Witness ==
    /\ gt_pc = "done" /\ ~gt_trim /\ gt_text = test_text
    /\ gt_gaps = <<[start |-> 0, end |-> 4, attrs |-> <<>>],
                   [start |-> 8, end |-> 9, attrs |-> <<>>],
                   [start |-> 18, end |-> 24, attrs |-> <<>>],
                   [start |-> 28, end |-> 35, attrs |-> <<>>]>>

\* C2: with trim and decorator, every emitted gap is one maximal uncovered
\* interval narrowed to its stripped text (nothing but whitespace is cut off
\* and the gap neither starts nor ends with whitespace), an interval of
\* whitespace only yields no gap, every other interval yields exactly one,
\* and gap_length is the length of the trimmed substring.
C2_TrimmedDecoratedGaps ==
    (gt_pc = "done" /\ gt_trim /\ gt_decorator) =>
        /\ \A i \in 1..Len(gt_gaps) :
               LET g == gt_gaps[i]
               IN /\ g.start < g.end
                  /\ \E m \in MaximalGaps :
                        /\ m[1] <= g.start /\ g.end <= m[2]
                        /\ \A p \in m[1]..(g.start - 1) : IsSpace(gt_text[p + 1])
                        /\ \A p \in g.end..(m[2] - 1) : IsSpace(gt_text[p + 1])
                  /\ ~IsSpace(gt_text[g.start + 1])
                  /\ ~IsSpace(gt_text[g.end])
                  /\ g.attrs = << <<"gap_length", g.end - g.start>> >>
        /\ \A m \in MaximalGaps :
               LET in == {i \in 1..Len(gt_gaps) :
                            m[1] <= gt_gaps[i].start /\ gt_gaps[i].end <= m[2]}
               IN Cardinality(in) = IF GapHasText(m) THEN 1 ELSE 0
        /\ \A i \in 1..Len(gt_gaps) - 1 :
               gt_gaps[i].end <= gt_gaps[i + 1].start

\* C2 witness: the run of test_gaps_trim has finished: three gaps, the
\* whitespace-only interval [8, 9) gone, each gap_length the trimmed length.
C2_Witness ==
    /\ gt_pc = "done" /\ gt_trim /\ gt_decorator /\ gt_text = test_text
    /\ gt_gaps = <<[start |-> 0, end |-> 3, attrs |-> << <<"gap_length", 3>> >>],
                   [start |-> 19, end |-> 23, attrs |-> << <<"gap_length", 4>> >>],
                   [start |-> 29, end |-> 35, attrs |-> << <<"gap_length", 6>> >>]>>

\* -------------------------------------------------------- excerpt: claims
IsAttached(layer) == layer.parent # None
IsEnveloping(layer) == layer.parent = None /\ layer.enveloping # None
IsPlain(layer) == layer.parent = None /\ layer.enveloping = None

\* Layer l is among the retained layers.
Retained(l) == ~Skipped(ex_layers_to_keep, ex_layers[l].name)

\* The call has ended: it has returned or raised.
Terminated == ex_pc \in {"done", "raised"}

\* The loop has gone through layer l without raising.
Processed(l) ==
    /\ ex_pc \in {"loop", "done", "raised"}
    /\ l <= ex_i
    /\ ex_pc = "raised" => l < ex_i

\* The exception was raised by the iteration for layer l.
RaisedAt(l) == ex_pc = "raised" /\ ex_i = l

\* The spans of the new document's layer called name, each as its interval
\* and attribute values.
NewSpans(name) ==
    LET k == LayerIndex(ex_new_text.layers, name)
        spans == ex_new_text.layers[k].spans
    IN [n \in 1..Len(spans) |->
           [start |-> spans[n].start, end |-> spans[n].end,
            values |-> spans[n].values]]

\* The subsequence of s of the elements at the indices in keep.
RECURSIVE Pick(_, _, _)
Pick(s, keep, j) ==
    IF j > Len(s) THEN <<>>
    ELSE (IF j \in keep THEN <<s[j]>> ELSE <<>>) \o Pick(s, keep, j + 1)

\* C3: with trim_overlapping off, the new layer of every retained plain
\* unambiguous layer holds, in the original order, exactly the spans
\* (s - start, e - start) with the source's attribute values of the source
\* spans (s, e) with start <= s and e <= end.
C3_UntrimmedPlainLayer ==
    \A l \in 1..Len(ex_layers) :
        LET layer == ex_layers[l]
            inside == {j \in 1..Len(layer.spans) :
                         ex_start <= layer.spans[j].start
                             /\ layer.spans[j].end <= ex_end}
            remapped == [j \in 1..Len(layer.spans) |->
                            [start |-> layer.spans[j].start - ex_start,
                             end |-> layer.spans[j].end - ex_start,
                             values |-> layer.spans[j].annotations[1]]]
        IN (Processed(l) /\ Retained(l) /\ ~ex_trim_overlapping
                /\ IsPlain(layer) /\ ~layer.ambiguous)
            => NewSpans(layer.name) = Pick(remapped, inside, 1)

\* C3 witness: excerpt has returned, trim_overlapping off, start > 0, and a
\* retained plain layer had one span inside the window and one crossing
\* the window's start.
C3_Witness ==
    /\ ex_pc = "done" /\ ~ex_trim_overlapping /\ ex_start > 0
    /\ \E l \in 1..Len(ex_layers) :
          /\ Retained(l) /\ IsPlain(ex_layers[l])
          /\ Len(ex_layers[l].spans) = 2
          /\ Len(NewSpans(ex_layers[l].name)) = 1
          /\ \E j \in 1..2 :
                LET span == ex_layers[l].spans[j]
                IN span.start < ex_start /\ ex_start < span.end

\* C4: with trim_overlapping on, the new layer of every retained plain
\* unambiguous layer holds the span (max(s,start) - start, min(e,end) - start)
\* with the source span's values for exactly the source spans (s, e) with
\* max(s,start) < min(e,end), once each.
C4_TrimmedPlainLayer ==
    \A l \in 1..Len(ex_layers) :
        LET layer == ex_layers[l]
            clipped(j) ==
                [start |-> Max(layer.spans[j].start, ex_start) - ex_start,
                 end |-> Min(layer.spans[j].end, ex_end) - ex_start,
                 values |-> layer.spans[j].annotations[1]]
            kept == {j \in 1..Len(layer.spans) :
                        Max(layer.spans[j].start, ex_start)
                            < Min(layer.spans[j].end, ex_end)}
        IN (Processed(l) /\ Retained(l) /\ ex_trim_overlapping
                /\ IsPlain(layer) /\ ~layer.ambiguous)
            => /\ Range(NewSpans(layer.name)) = {clipped(j) : j \in kept}
               /\ Len(NewSpans(layer.name)) = Cardinality(kept)

\* C4 witness: excerpt has returned, trim_overlapping on, start > 0, and of
\* a retained plain layer one span was cut at the window's start and kept,
\* and one span was dropped.
C4_Witness ==
    /\ ex_pc = "done" /\ ex_trim_overlapping /\ ex_start > 0
    /\ \E l \in 1..Len(ex_layers) :
          /\ Retained(l) /\ IsPlain(ex_layers[l])
          /\ Len(ex_layers[l].spans) = 2
          /\ Len(NewSpans(ex_layers[l].name)) = 1
          /\ ex_layers[l].spans[1].start < ex_start
          /\ ex_start < ex_layers[l].spans[1].end

\* A source span survives in the new document's plain layer.
Survives(span) ==
    IF ex_trim_overlapping
    THEN Max(span.start, ex_start) < Min(span.end, ex_end)
    ELSE ex_start <= span.start /\ span.end <= ex_end

\* The new spans an ambiguous attached layer l is to get: one per
\* annotation of every span whose parent span survived, on the parent's
\* remapped interval, with the annotation's values.
RECURSIVE ReEmitted(_, _, _)
ReEmitted(l, pl, j) ==
    LET layer == ex_layers[l]
    IN IF j > Len(layer.spans) THEN <<>>
       ELSE LET span == layer.spans[j]
                parent == ex_layers[pl].spans[span.parent]
                lo == IF ex_trim_overlapping
                      THEN Max(parent.start, ex_start) ELSE parent.start
                hi == IF ex_trim_overlapping
                      THEN Min(parent.end, ex_end) ELSE parent.end
            IN (IF Retained(pl) /\ Survives(parent)
                THEN [a \in 1..Len(span.annotations) |->
                         [start |-> lo - ex_start, end |-> hi - ex_start,
                          values |-> span.annotations[a]]]
                ELSE <<>>) \o ReEmitted(l, pl, j + 1)

C7_AmbiguousEnvelopingRaises ==
    \A l \in 1..Len(ex_layers) :
        (Retained(l) /\ IsEnveloping(ex_layers[l]) /\ ex_layers[l].ambiguous)
            => /\ ~Processed(l)
               /\ Terminated => ex_pc = "raised" /\ ex_result = <<>>
               /\ RaisedAt(l) => ex_error = "NotImplementedError"

\* C7 witness: the call has raised NotImplementedError at a retained
\* ambiguous enveloping layer, after the enveloped layer was processed.
C7_Witness ==
    /\ ex_pc = "raised" /\ ex_error = "NotImplementedError"
    /\ ex_result = <<>>
    /\ \E l \in 2..Len(ex_layers) :
          /\ RaisedAt(l) /\ Retained(l)
          /\ IsEnveloping(ex_layers[l]) /\ ex_layers[l].ambiguous
          /\ Processed(LayerIndex(ex_layers, ex_layers[l].enveloping))
          /\ Retained(LayerIndex(ex_layers, ex_layers[l].enveloping))

\* The components an enveloping span j of layer l is to get: the new spans
\* of those of its components that have a new span in the enveloped layer
\* el, in order, from component c on.
RECURSIVE SurvivingComponents(_, _, _, _)
SurvivingComponents(l, j, el, c) ==
    LET span == ex_layers[l].spans[j]
    IN IF c > Len(span.spans) THEN <<>>
       ELSE (IF <<el, span.spans[c], 0>> \in DOMAIN ex_map_spans
             THEN <<ex_map_spans[<<el, span.spans[c], 0>>]>>
             ELSE <<>>) \o SurvivingComponents(l, j, el, c + 1)

\* The spans of the new document's layer that was rebuilt from layer l.
RebuiltSpans(l) ==
    ex_new_text.layers[LayerIndex(ex_new_text.layers, ex_layers[l].name)].spans

\* C20 as claimed: in a successful excerpt every span of a rebuilt
\* unambiguous enveloping layer has at least one component, and its
\* components are, in order, the new spans of the surviving components of
\* the source span it was rebuilt from.
C20_RebuiltSpansHaveComponents ==
    ex_pc = "done" =>
        \A l \in 1..Len(ex_layers) :
            (Retained(l) /\ IsEnveloping(ex_layers[l])
                /\ ~ex_layers[l].ambiguous) =>
                \A n \in 1..Len(RebuiltSpans(l)) :
                    LET new_span == RebuiltSpans(l)[n]
                        el == LayerIndex(ex_layers, ex_layers[l].enveloping)
                    IN /\ new_span.spans # <<>>
                       /\ new_span.spans =
                              SurvivingComponents(l, new_span.src[2], el, 1)

\* Whenever the enveloped layer is a plain one, the components of a rebuilt
\* enveloping span are the new spans of the surviving components of its
\* source span, be there any or none.
RebuiltComponentsAsClaimed ==
    ex_pc = "done" =>
        \A l \in 1..Len(ex_layers) :
            (Retained(l) /\ IsEnveloping(ex_layers[l])
                /\ ~ex_layers[l].ambiguous) =>
                \A n \in 1..Len(RebuiltSpans(l)) :
                    LET new_span == RebuiltSpans(l)[n]
                        el == LayerIndex(ex_layers, ex_layers[l].enveloping)
                    IN IsPlain(ex_layers[el]) =>
                           new_span.spans =
                               SurvivingComponents(l, new_span.src[2], el, 1)

\* A rebuilt enveloping span without components, in a call that retains
\* the enveloped layer and trims.
EmptyRebuiltSpan ==
    /\ ex_pc = "done" /\ ex_trim_overlapping
    /\ ex_layers_to_keep = <<>>
    /\ \E l \in 1..Len(ex_layers) :
          /\ IsEnveloping(ex_layers[l]) /\ ~ex_layers[l].ambiguous
          /\ \E n \in 1..Len(RebuiltSpans(l)) : RebuiltSpans(l)[n].spans = <<>>

\* The attribute values of the source enveloping span a rebuilt span was
\* rebuilt from.
SourceValues(l, new_span) ==
    ex_layers[l].spans[new_span.src[2]].annotations[1]

\* C21 as claimed: in a successful excerpt every rebuilt enveloping span
\* carries, for each attribute of its layer, the value the attribute has on
\* the source enveloping span it was rebuilt from.
C21_RebuiltSpansCarryAttributes ==
    ex_pc = "done" =>
        \A l \in 1..Len(ex_layers) :
            (Retained(l) /\ IsEnveloping(ex_layers[l])
                /\ ~ex_layers[l].ambiguous) =>
                \A n \in 1..Len(RebuiltSpans(l)) :
                    RebuiltSpans(l)[n].values
                        = SourceValues(l, RebuiltSpans(l)[n])

\* What line 67 does give a rebuilt enveloping span of a layer with
\* attributes: the values of the annotation sp that the loop of an
\* ambiguous attached layer has left behind.
RebuiltSpansCarryLeftover ==
    ex_pc = "done" =>
        \A l \in 1..Len(ex_layers) :
            (Retained(l) /\ IsEnveloping(ex_layers[l])
                /\ ~ex_layers[l].ambiguous
                /\ ex_layers[l].attributes # <<>>) =>
                \A n \in 1..Len(RebuiltSpans(l)) :
                    /\ ex_sp # NoKey
                    /\ RebuiltSpans(l)[n].values =
                           EnvelopingAttributes(ex_layers,
                               ex_layers[l].attributes, ex_sp).values

\* A rebuilt enveloping span of a layer with attributes whose values are
\* not those of its source span.
ForeignValuesRebuilt ==
    /\ ex_pc = "done"
    /\ \E l \in 1..Len(ex_layers) :
          /\ Retained(l) /\ IsEnveloping(ex_layers[l])
          /\ ex_layers[l].attributes # <<>>
          /\ \E n \in 1..Len(RebuiltSpans(l)) :
                RebuiltSpans(l)[n].values
                    # SourceValues(l, RebuiltSpans(l)[n])

\* An enveloping layer with attributes makes the call raise when no
\* annotation was left behind.
EnvelopingAttributesRaise ==
    /\ ex_pc = "raised"
    /\ ex_error = "UnboundLocalError"

\* ------------------------------- layers_to_keep_default, split_by: claims
\* The dependency graph of a document's layers: an edge from every
\* enveloping layer to its enveloped layer, and edges both ways between
\* every attached layer and its parent.
DependencyEdge(layers, a, b) ==
    \E k \in 1..Len(layers) :
        \/ layers[k].name = a /\ IsEnveloping(layers[k])
              /\ layers[k].enveloping = b
        \/ layers[k].name = a /\ IsAttached(layers[k]) /\ layers[k].parent = b
        \/ layers[k].name = b /\ IsAttached(layers[k]) /\ layers[k].parent = a

\* The layers of the graph: those some edge starts or ends at.
GraphLayers(layers) ==
    LayerNamesOf(layers)
        \cup {layers[k].parent : k \in {i \in 1..Len(layers) :
                                          IsAttached(layers[i])}}
        \cup {layers[k].enveloping : k \in {i \in 1..Len(layers) :
                                              IsEnveloping(layers[i])}}

\* layer takes part in at least one relation.
InRelation(layers, layer) ==
    \E b \in GraphLayers(layers) :
        DependencyEdge(layers, layer, b) \/ DependencyEdge(layers, b, layer)

\* The layers a path of the dependency graph leads to from layer (the empty
\* path included).
ReachableFrom(layers, layer) ==
    LET nodes == GraphLayers(layers)
        paths == {p \in SeqsUpTo(nodes, Cardinality(nodes)) :
                    /\ p # <<>> /\ p[1] = layer
                    /\ \A i \in 1..Len(p) - 1 :
                          DependencyEdge(layers, p[i], p[i + 1])}
    IN {p[Len(p)] : p \in paths}

\* C8: for a layer that takes part in a relation, layers_to_keep_default
\* returns exactly the layers reachable from it in the dependency graph,
\* itself included; the result holds the parent or enveloped layer of each
\* of its layers and every layer attached to one of its layers.
C8_KeepIsReachableSet ==
    (lk_pc \in {"done", "raised"} /\ InRelation(lk_layers, lk_layer)) =>
        /\ lk_pc = "done"
        /\ lk_result = ReachableFrom(lk_layers, lk_layer)
        /\ \A k \in 1..Len(lk_layers) :
              LET layer == lk_layers[k]
              IN /\ (layer.name \in lk_result /\ IsAttached(layer))
                        => layer.parent \in lk_result
                 /\ (layer.name \in lk_result /\ IsEnveloping(layer))
                        => layer.enveloping \in lk_result
                 /\ (IsAttached(layer) /\ layer.parent \in lk_result)
                        => layer.name \in lk_result

\* C8 witness: the call has returned for an enveloping layer, and the
\* result holds a layer that is attached to the enveloped layer.
C8_Witness ==
    /\ lk_pc = "done"
    /\ \E k, m \in 1..Len(lk_layers) :
          /\ lk_layers[k].name = lk_layer /\ IsEnveloping(lk_layers[k])
          /\ IsAttached(lk_layers[m])
          /\ lk_layers[m].parent = lk_layers[k].enveloping
          /\ lk_layers[m].name \in lk_result

\* C9 as claimed: for every layer of the document the call returns a set
\* that contains the layer, and {layer} for a layer in no relation.
C9_KeepContainsLayer ==
    lk_pc \in {"done", "raised"} =>
        /\ lk_pc = "done"
        /\ lk_layer \in lk_result
        /\ ~InRelation(lk_layers, lk_layer) => lk_result = {lk_layer}

\* What split_by is to return: one document per span of layer_name, in
\* order, the i-th being the excerpt of span i with trim_overlapping off
\* and with layers_to_keep (by default the layers reachable from
\* layer_name), its text being text.text[span.start:span.end].
SplitResultAsClaimed ==
    LET spans == sb_layers[LayerIndex(sb_layers, sb_layer_name)].spans
        keep == IF sb_given = <<>>
                THEN <<ReachableFrom(sb_layers, sb_layer_name)>>
                ELSE sb_given
    IN /\ sb_returned = <<sb_result>>
       /\ Len(sb_result) = Len(spans)
       /\ \A i \in 1..Len(spans) :
             LET got == excerpt(sb_text, sb_layers, spans[i].start,
                                spans[i].end, keep, FALSE)
             IN /\ got.error = None
                /\ sb_result[i] = got.result[1]
                /\ sb_result[i].text
                      = [c \in 1..(spans[i].end - spans[i].start) |->
                            sb_text[spans[i].start + c]]

\* C10 as claimed, for a document of plain unambiguous layers (of which
\* excerpt rejects none): split_by returns, and returns the list of the
\* excerpts of the spans of layer_name.
C10_SplitReturnsExcerpts ==
    (sb_pc \in {"done", "raised"}
        /\ \A k \in 1..Len(sb_layers) :
              IsPlain(sb_layers[k]) /\ ~sb_layers[k].ambiguous)
        => sb_pc = "done" /\ SplitResultAsClaimed

\* Whenever split_by does return, it returns what C10 says.
SplitReturnedAsClaimed == sb_pc = "done" => SplitResultAsClaimed

\* ------------------------------------------ CompoundTokenTagger: claims
\* The loop over the tokens is over.
SweepOver == ct_pc \in {"final", "done"}

\* Token k is the literal '-'.
IsHyphen(k) == TokenText(ct_raw_text, ct_tokens[k + 1]) = <<"-">>

\* Tokens lo..hi: each starts where the one before it ends, and non-hyphen
\* tokens alternate with '-' tokens, the first being a non-hyphen token.
AlternatingRun(lo, hi) ==
    /\ 0 <= lo /\ lo <= hi /\ hi < Len(ct_tokens)
    /\ \A k \in (lo + 1)..hi : ct_tokens[k + 1].start = ct_tokens[k].end
    /\ \A k \in lo..hi : IsHyphen(k) <=> (k - lo) % 2 = 1

\* A run of at least two tokens that no token before or after it extends.
MaximalRun(lo, hi) ==
    /\ AlternatingRun(lo, hi)
    /\ lo < hi
    /\ ~AlternatingRun(lo, hi + 1)
    /\ ~AlternatingRun(lo - 2, hi)

\* The hyphenation candidates the loop appended that envelop tokens lo..hi.
HyphenationsOver(lo, hi) ==
    {n \in 1..Len(ct_appended) :
        /\ ct_appended[n].type = <<"hyphenation">>
        /\ ct_appended[n].spans = [k \in 1..(hi - lo + 1) |-> lo + k - 1]}

\* C11 as claimed: with tag_hyphenations on, every maximal run of tokens,
\* wherever it lies, has got exactly one hyphenation candidate if its text
\* has a letter, and none if it has none.
C11_EveryRunIsQueued ==
    (SweepOver /\ ct_tag_hyphenations) =>
        \A lo \in 0..(Len(ct_tokens) - 1), hi \in 0..(Len(ct_tokens) - 1) :
            MaximalRun(lo, hi) =>
                IF HasLetter(Slice(ct_raw_text, ct_tokens[lo + 1].start,
                                   ct_tokens[hi + 1].end))
                THEN Cardinality(HyphenationsOver(lo, hi)) = 1
                ELSE HyphenationsOver(lo, hi) = {}

\* The same for the runs that another token follows, in inputs where no
\* two '-' tokens are next to each other.
RunsBeforeTheLastToken ==
    (/\ SweepOver /\ ct_tag_hyphenations
     /\ \A k \in 1..(Len(ct_tokens) - 1) :
            ~(/\ IsHyphen(k - 1) /\ IsHyphen(k)
              /\ ct_tokens[k + 1].start = ct_tokens[k].end)) =>
        \A lo \in 0..(Len(ct_tokens) - 1), hi \in 0..(Len(ct_tokens) - 2) :
            MaximalRun(lo, hi) =>
                IF HasLetter(Slice(ct_raw_text, ct_tokens[lo + 1].start,
                                   ct_tokens[hi + 1].end))
                THEN Cardinality(HyphenationsOver(lo, hi)) = 1
                ELSE HyphenationsOver(lo, hi) = {}

\* A run with a letter that another token follows has got its candidate.
RunQueued ==
    /\ SweepOver /\ ct_tag_hyphenations
    /\ \E lo \in 0..(Len(ct_tokens) - 1), hi \in 0..(Len(ct_tokens) - 2) :
          /\ MaximalRun(lo, hi) /\ hi - lo = 2
          /\ HyphenationsOver(lo, hi) # {}

\* C18 as claimed: every hyphenation candidate the loop appended envelops
\* tokens of which each starts where the one before it ends and in which
\* non-hyphen tokens and '-' tokens strictly alternate, the first being a
\* non-hyphen token.
C18_HyphenationsAlternate ==
    \A n \in 1..Len(ct_appended) :
        ct_appended[n].type = <<"hyphenation">> =>
            LET spans == ct_appended[n].spans
            IN /\ \A k \in 1..(Len(spans) - 1) : spans[k + 1] = spans[k] + 1
               /\ AlternatingRun(spans[1], spans[Len(spans)])

\* The tokens of every hyphenation candidate follow one another without a
\* gap, and there is a '-' among them.
HyphenationsAreAdjacent ==
    \A n \in 1..Len(ct_appended) :
        ct_appended[n].type = <<"hyphenation">> =>
            LET spans == ct_appended[n].spans
            IN /\ \A k \in 1..(Len(spans) - 1) :
                      /\ spans[k + 1] = spans[k] + 1
                      /\ ct_tokens[spans[k + 1] + 1].start
                             = ct_tokens[spans[k] + 1].end
               /\ Len(spans) >= 2
               /\ IsHyphen(spans[2])

\* _make_layer has returned or raised.
CompoundTerminated == ct_pc \in {"done", "raised"}

\* Two hints of the first level, neither of a negative pattern, start at
\* the same position.
HintsShareStart ==
    \E k \in 1..Len(ct_hints_1), n \in 1..Len(ct_hints_1) :
        /\ k < n
        /\ ct_hints_1[k].start = ct_hints_1[n].start
        /\ ct_hints_1[k].pattern_type \notin NegativePatternTypes
        /\ ct_hints_1[n].pattern_type \notin NegativePatternTypes

\* C12 as claimed: the call fails, and returns no layer, exactly when two
\* hints that are not of a negative pattern start at the same position.
C12_FailsOnSharedStart ==
    CompoundTerminated =>
        /\ HintsShareStart <=> ct_pc = "raised"
        /\ ct_pc = "raised" => ct_layer = <<>>

\* The call fails exactly when a hint that is not of a negative pattern
\* starts where a hint that was stored before it starts: one that is not
\* of a negative pattern either and has none of the separators in its text.
FailsOnStoredStart ==
    CompoundTerminated =>
        /\ ct_pc = "raised" <=>
               \E k \in 1..Len(ct_hints_1), n \in 1..Len(ct_hints_1) :
                   /\ k < n
                   /\ ct_hints_1[k].start = ct_hints_1[n].start
                   /\ ct_hints_1[k].pattern_type \notin NegativePatternTypes
                   /\ ct_hints_1[n].pattern_type \notin NegativePatternTypes
                   /\ ~Discard(ct_do_not_join_on_strings,
                               Slice(ct_raw_text, ct_hints_1[k].start,
                                     ct_hints_1[k].end))
        /\ ct_pc = "raised" => ct_layer = <<>>

\* The call has raised.
HintsRaised == ct_pc = "raised" /\ ct_error = "Exception"

\* C13 as claimed: no compound token of the returned layer covers text
\* that has one of the strings of do_not_join_on_strings in it.
C13_NoSeparatorInside ==
    ct_pc = "done" =>
        \A n \in 1..Len(ct_layer) :
            ~Discard(ct_do_not_join_on_strings,
                     Slice(ct_raw_text, ct_layer[n].start, ct_layer[n].end))

\* The same for the compound tokens that are not hyphenations.
NoSeparatorInsideOthers ==
    ct_pc = "done" =>
        \A n \in 1..Len(ct_layer) :
            "hyphenation" \notin Range(ct_layer[n].type) =>
                ~Discard(ct_do_not_join_on_strings,
                         Slice(ct_raw_text, ct_layer[n].start,
                               ct_layer[n].end))

\* A hint was dropped for a separator and another one made a compound
\* token.
SeparatorDropped ==
    /\ ct_pc = "done"
    /\ Len(ct_layer) = 1
    /\ \E k \in 1..Len(ct_hints_1) :
          /\ ct_hints_1[k].pattern_type \notin NegativePatternTypes
          /\ Discard(ct_do_not_join_on_strings,
                     Slice(ct_raw_text, ct_hints_1[k].start,
                           ct_hints_1[k].end))

\* Token i is one of the custom abbreviations.
IsCustomAbbreviation(i) ==
    \E n \in 1..Len(ct_custom_abbreviations) :
        ct_custom_abbreviations[n] = TokenText(ct_raw_text, ct_tokens[i + 1])

\* C14 as claimed: the candidate of a custom abbreviation at token i
\* envelops tokens i and i+1 and has normalized = abbreviation + '.' if
\* token i+1 exists and is '.', and else envelops token i alone without a
\* normalization; also when token i+1 is the last token.
C14_AbbreviationWithFullStop ==
    ct_hints_1 = <<>> =>
        \A n \in 1..Len(ct_appended) :
            ct_appended[n].type = <<"non_ending_abbreviation">> =>
                LET i == ct_appended[n].spans[1]
                    token == TokenText(ct_raw_text, ct_tokens[i + 1])
                IN /\ IsCustomAbbreviation(i)
                   /\ IF /\ i + 1 < Len(ct_tokens)
                         /\ TokenText(ct_raw_text, ct_tokens[i + 2]) = <<".">>
                      THEN /\ ct_appended[n].spans = <<i, i + 1>>
                           /\ ct_appended[n].normalized
                                  = <<token \o <<".">>>>
                      ELSE /\ ct_appended[n].spans = <<i>>
                           /\ ct_appended[n].normalized = <<>>

\* The same when token i+1 is not the last token.
AbbreviationBeforeTheLastToken ==
    ct_hints_1 = <<>> =>
        \A n \in 1..Len(ct_appended) :
            ct_appended[n].type = <<"non_ending_abbreviation">> =>
                LET i == ct_appended[n].spans[1]
                    token == TokenText(ct_raw_text, ct_tokens[i + 1])
                IN /\ IsCustomAbbreviation(i)
                   /\ i + 2 # Len(ct_tokens) =>
                      IF /\ i + 1 < Len(ct_tokens)
                         /\ TokenText(ct_raw_text, ct_tokens[i + 2]) = <<".">>
                      THEN /\ ct_appended[n].spans = <<i, i + 1>>
                           /\ ct_appended[n].normalized
                                  = <<token \o <<".">>>>
                      ELSE /\ ct_appended[n].spans = <<i>>
                           /\ ct_appended[n].normalized = <<>>

\* An abbreviation was joined with the full stop after it.
AbbreviationJoined ==
    \E n \in 1..Len(ct_appended) :
        /\ ct_appended[n].type = <<"non_ending_abbreviation">>
        /\ Len(ct_appended[n].spans) = 2

\* C17 as claimed: without custom abbreviations, every token i whose start
\* is a key of the hint index has got a candidate over tokens i..j with the
\* hint's pattern type and normalized value if some token j >= i ends where
\* the hint ends, and no candidate if none does.
C17_HintsBecomeCandidates ==
    (SweepOver /\ ct_custom_abbreviations = <<>>) =>
        \A i \in 0..(Len(ct_tokens) - 1) :
            ct_tokens[i + 1].start \in DOMAIN ct_tokenization_hints =>
                LET node == ct_tokenization_hints[ct_tokens[i + 1].start]
                    ends == {j \in i..(Len(ct_tokens) - 1) :
                                ct_tokens[j + 1].end = node.end}
                    from_i == {n \in 1..Len(ct_appended) :
                                  /\ ct_appended[n].spans[1] = i
                                  /\ ct_appended[n].type
                                         # <<"hyphenation">>}
                IN IF ends # {}
                   THEN \E j \in ends : \E n \in from_i :
                            ct_appended[n] =
                                NewEnvelopingSpan(ct_tokens, i, j + 1,
                                    <<node.pattern_type>>, node.normalized)
                   ELSE from_i = {}

\* The same for every token but the hint that covers the first token alone.
HintsBecomeCandidatesButFirst ==
    (SweepOver /\ ct_custom_abbreviations = <<>>) =>
        \A i \in 0..(Len(ct_tokens) - 1) :
            ct_tokens[i + 1].start \in DOMAIN ct_tokenization_hints =>
                LET node == ct_tokenization_hints[ct_tokens[i + 1].start]
                    ends == {j \in i..(Len(ct_tokens) - 1) :
                                ct_tokens[j + 1].end = node.end}
                    from_i == {n \in 1..Len(ct_appended) :
                                  /\ ct_appended[n].spans[1] = i
                                  /\ ct_appended[n].type
                                         # <<"hyphenation">>}
                IN IF ends # {} /\ ends # {0}
                   THEN \E j \in ends : \E n \in from_i :
                            ct_appended[n] =
                                NewEnvelopingSpan(ct_tokens, i, j + 1,
                                    <<node.pattern_type>>, node.normalized)
                   ELSE from_i = {}

\* A hint has become a candidate over more than one token.
HintApplied ==
    /\ SweepOver /\ ct_custom_abbreviations = <<>>
    /\ \E n \in 1..Len(ct_appended) :
          /\ ct_appended[n].type = <<"numeric">>
          /\ Len(ct_appended[n].spans) >= 2

\* The loop is about to go through a token that is a custom abbreviation
\* and whose candidate gets to the test against the last compound token:
\* none of the strings of do_not_join_on_strings is in its text.
AbbreviationCompared ==
    /\ ct_pc = "sweep" /\ ct_i < Len(ct_tokens)
    /\ ct_custom_abbreviations # <<>>
    /\ IsCustomAbbreviation(ct_i)
    /\ LET built == CustomAbbreviationSpan(ct_raw_text, ct_tokens, ct_i)
       IN ~Discard(ct_do_not_join_on_strings,
                   Slice(ct_raw_text, built.start, built.end))

SpansOverlap(a, b) == a.start < b.end /\ b.start < a.end

\* C15: the returned layer is an unambiguous enveloping layer over the
\* tokens: its spans envelop tokens of the layer and do not overlap each
\* other, and each span with its one annotation (type, normalized) is one
\* of the candidates that were queued before the layer was made.
C15_LayerOfQueuedCandidates ==
    ct_pc = "done" =>
        /\ \A n \in 1..Len(ct_layer) :
               /\ ct_layer[n].spans # <<>>
               /\ \A k \in 1..Len(ct_layer[n].spans) :
                      ct_layer[n].spans[k] \in 0..(Len(ct_tokens) - 1)
               /\ \E q \in 1..Len(ct_compound_tokens_lists) :
                      ct_compound_tokens_lists[q] = ct_layer[n]
        /\ \A n \in 1..Len(ct_layer), m \in 1..Len(ct_layer) :
               n # m => ~SpansOverlap(ct_layer[n], ct_layer[m])

\* Two queued candidates overlapped and one of them is in the layer.
C15_Witness ==
    /\ ct_pc = "done"
    /\ Len(ct_layer) >= 1
    /\ \E q \in 1..Len(ct_compound_tokens_lists),
          r \in 1..Len(ct_compound_tokens_lists) :
          /\ q # r
          /\ ct_compound_tokens_lists[q].spans
                 # ct_compound_tokens_lists[r].spans
          /\ SpansOverlap(ct_compound_tokens_lists[q],
                          ct_compound_tokens_lists[r])

\* ------------------------------------------------ resolve_conflicts: claims
\* C16: resolve_conflicts is idempotent: applied to its own result with the
\* same strategy, priority attribute and keep_equal, it removes nothing.
C16_ResolveIsIdempotent ==
    rc_pc = "done" => rc_twice = rc_once

\* The first application removed a span and left at least two.
C16_Witness ==
    /\ rc_pc = "done"
    /\ Len(rc_once) < Len(rc_layer)
    /\ Len(rc_once) >= 2

\* C22 as claimed: at the end of the loop over the tokens the queue of
\* candidates is in ascending text order: of two consecutive candidates the
\* second does not start before the first.
C22_SweptQueueAscending ==
    SweepOver =>
        \A n \in 1..(Len(ct_swept) - 1) :
            ct_swept[n].start <= ct_swept[n + 1].start

\* The same for the candidates that are not hyphenations, which the loop
\* queues in the round of their first token.
SweptOthersAscending ==
    SweepOver =>
        \A n \in 1..Len(ct_swept), m \in 1..Len(ct_swept) :
            (/\ n < m
             /\ ct_swept[n].type # <<"hyphenation">>
             /\ ct_swept[m].type # <<"hyphenation">>) =>
                ct_swept[n].start <= ct_swept[m].start

\* A hyphenation is queued after a candidate that starts later in the text.
HyphenationQueuedLate ==
    /\ SweepOver
    /\ \E n \in 1..(Len(ct_swept) - 1) :
          /\ ct_swept[n + 1].type = <<"hyphenation">>
          /\ ct_swept[n + 1].start < ct_swept[n].start

\* The loop over the tokens has ended and a hint of the second level is
\* about to be applied.
SecondLevelDue ==
    /\ ct_pc = "sweep" /\ ct_i = Len(ct_tokens)
    /\ ct_tagger_2 # <<>> /\ ct_tagger_2[1] # <<>>

\* What the hint of the second level covers in the queue and the tokens.
SecondLevelGathered ==
    SecondLevelCovered(ct_raw_text, ct_tokens, ct_compound_tokens_lists,
                       ct_tagger_2[1][1])

\* The candidate _create_new_spanlist makes for the hint of the second
\* level.
MergedCandidate ==
    create_new_spanlist(ct_raw_text, ct_tokens,
        SecondLevelGathered.covered_compound_tokens,
        SecondLevelGathered.covered_tokens, ct_tagger_2[1][1])

\* The hint of the second level gets to line 549, _insert_span(spl,
\* compound_tokens_lists).
InsertionDue ==
    /\ SecondLevelDue
    /\ \/ SecondLevelGathered.covered_compound_tokens # <<>>
       \/ SecondLevelGathered.covered_tokens # <<>>
    /\ SecondLevelGathered.constraints_satisfied
    /\ ~Discard(ct_do_not_join_on_strings,
                Slice(ct_raw_text, MergedCandidate.start,
                      MergedCandidate.end))

\* The list line 549 inserts into: the queue without the covered
\* candidates.
InsertedInto ==
    remove_overlapped_spans(SecondLevelGathered.covered_compound_tokens,
                            ct_compound_tokens_lists)

\* A list of spans is in ascending (start, end) order.
Ascending(spans) ==
    \A k \in 1..(Len(spans) - 1) : ~SpanLess(spans[k + 1], spans[k])

\* after is the list spans with span put in at some place.
InsertedSomewhere(span, spans, after) ==
    \E p \in 0..Len(spans) :
        after = SubSeq(spans, 1, p) \o <<span>>
                    \o SubSeq(spans, p + 1, Len(spans))

\* C23 as claimed: _insert_span(span, spans) with discard_duplicate false
\* on a list in ascending (start, end) order leaves it in ascending order,
\* with the new span in it and the previous elements in their previous
\* order, also when the new span overlaps spans of the list.
C23_InsertKeepsOrder ==
    (InsertionDue /\ Ascending(InsertedInto)) =>
        LET after == insert_span(MergedCandidate, InsertedInto, FALSE)
        IN /\ Ascending(after)
           /\ InsertedSomewhere(MergedCandidate, InsertedInto, after)

\* The same for a new span that overlaps no span of the list; and the new
\* span is put in, the others keeping their order, in every case.
InsertKeepsOrderWithoutOverlap ==
    (InsertionDue /\ Ascending(InsertedInto)) =>
        LET after == insert_span(MergedCandidate, InsertedInto, FALSE)
        IN /\ InsertedSomewhere(MergedCandidate, InsertedInto, after)
           /\ (\A k \in 1..Len(InsertedInto) :
                   ~SpansOverlap(MergedCandidate, InsertedInto[k]))
                  => Ascending(after)

\* The second level has put a candidate behind one that it overlaps and
\* that does not start before it.
InsertedOutOfOrder ==
    /\ ct_pc = "final" /\ ct_tagger_2 # <<>>
    /\ Ascending(ct_swept)
    /\ ~Ascending(ct_compound_tokens_lists)

\* The hint of the second level gets to line 531, _create_new_spanlist.
MergeDue ==
    /\ SecondLevelDue
    /\ \/ SecondLevelGathered.covered_compound_tokens # <<>>
       \/ SecondLevelGathered.covered_tokens # <<>>
    /\ SecondLevelGathered.constraints_satisfied

\* all_types: the types of the gathered candidates and of the hint.
GatheredTypes ==
    GatherAttributes(SecondLevelGathered.covered_compound_tokens,
        [all_normalizations |-> EmptyMap, all_types |-> <<>>]).all_types
        \o ct_tagger_2[1][1].pattern_type

\* The text of the merged candidate.
MergedText ==
    Slice(ct_raw_text, MergedCandidate.start, MergedCandidate.end)

\* The first repair applies: both types are gathered and the text ends in
\* 'st'.
CaseEndingRepair ==
    /\ "non_ending_abbreviation" \in Range(GatheredTypes)
    /\ "case_ending" \in Range(GatheredTypes)
    /\ Len(MergedText) >= 2
    /\ SubSeq(MergedText, Len(MergedText) - 1, Len(MergedText))
           = <<"s", "t">>

\* The second repair applies: both types are gathered and the text begins
\* with a letter.
SignRepair ==
    /\ "sign" \in Range(GatheredTypes)
    /\ "hyphenation" \in Range(GatheredTypes)
    /\ IsLetter(MergedText[1])

\* How many entries of a type tuple are x.
Occurrences(types, x) == Cardinality({k \in 1..Len(types) : types[k] = x})

\* C24 as claimed: the type of the merged candidate has no
\* non_ending_abbreviation entry when the first repair applies, and no sign
\* entry when the second applies, however many gathered candidates carry
\* the dropped type.
C24_RepairedTypesAreGone ==
    MergeDue =>
        /\ CaseEndingRepair =>
               "non_ending_abbreviation" \notin Range(MergedCandidate.type)
        /\ SignRepair => "sign" \notin Range(MergedCandidate.type)

\* What the repairs do: one entry of the dropped type is removed, so the
\* type is gone when one gathered candidate carries it.
OneEntryRepaired ==
    MergeDue =>
        /\ CaseEndingRepair =>
               Occurrences(MergedCandidate.type, "non_ending_abbreviation")
                   = Occurrences(GatheredTypes, "non_ending_abbreviation") - 1
        /\ SignRepair =>
               Occurrences(MergedCandidate.type, "sign")
                   = Occurrences(GatheredTypes, "sign") - 1

\* Two gathered candidates carry non_ending_abbreviation and the merged
\* candidate still has the type.
RepairedTypeLeft ==
    /\ ct_pc = "final"
    /\ \E n \in 1..Len(ct_compound_tokens_lists) :
          /\ "case_ending" \in Range(ct_compound_tokens_lists[n].type)
          /\ "non_ending_abbreviation"
                 \in Range(ct_compound_tokens_lists[n].type)
          /\ Slice(ct_raw_text, ct_compound_tokens_lists[n].start,
                   ct_compound_tokens_lists[n].end) = <<"s", "t">>

\* The sign of a hyphenation that begins with a letter was dropped.
SignDropped ==
    /\ ct_pc = "final"
    /\ \E n \in 1..Len(ct_swept) :
          /\ ct_swept[n].type = <<"sign">>
          /\ \E m \in 1..Len(ct_compound_tokens_lists) :
                /\ ct_compound_tokens_lists[m].type = <<"hyphenation">>
                /\ ct_compound_tokens_lists[m].start < ct_swept[n].start
                /\ ct_swept[n].end <= ct_compound_tokens_lists[m].end
    /\ \A m \in 1..Len(ct_compound_tokens_lists) :
          "sign" \notin Range(ct_compound_tokens_lists[m].type)

\* The starts and the ends of what the hint of the second level gathered:
\* the covered candidates and the covered tokens.
GatheredStarts ==
    {SecondLevelGathered.covered_compound_tokens[n].start :
        n \in 1..Len(SecondLevelGathered.covered_compound_tokens)}
    \cup {SecondLevelGathered.covered_tokens[n].start :
        n \in 1..Len(SecondLevelGathered.covered_tokens)}

GatheredEnds ==
    {SecondLevelGathered.covered_compound_tokens[n].end :
        n \in 1..Len(SecondLevelGathered.covered_compound_tokens)}
    \cup {SecondLevelGathered.covered_tokens[n].end :
        n \in 1..Len(SecondLevelGathered.covered_tokens)}

\* The match fails a strict boundary: the smallest gathered start is not
\* its start, or the largest gathered end is not its end.
StrictnessUnmet ==
    LET sp == ct_tagger_2[1][1]
    IN \/ /\ sp.left_strict
          /\ \E x \in GatheredStarts :
                 (\A y \in GatheredStarts : x <= y) /\ x # sp.start
       \/ /\ sp.right_strict
          /\ \E x \in GatheredEnds :
                 (\A y \in GatheredEnds : y <= x) /\ x # sp.end

\* C25: a match of the second level produces a merged candidate only if
\* its strict boundaries are met by the smallest start and the largest end
\* of what it gathered; a match that fails either test, or gathers
\* nothing, leaves the queue as it was.
C25_StrictBoundaries ==
    SecondLevelDue =>
        LET after == SecondLevelHint(ct_raw_text, ct_tokens,
                         ct_compound_tokens_lists, ct_tagger_2[1][1],
                         ct_do_not_join_on_strings)
        IN /\ InsertionDue => ~StrictnessUnmet
           /\ (StrictnessUnmet \/ GatheredStarts = {})
                  => after = ct_compound_tokens_lists

\* A match with a strict boundary gathered candidates or tokens, failed
\* the test, and the queue is as the loop over the tokens left it.
C25_Witness ==
    /\ ct_pc = "final" /\ ct_tagger_2 # <<>> /\ ct_tagger_2[1] # <<>>
    /\ ct_swept # <<>>
    /\ ct_compound_tokens_lists = ct_swept
    /\ LET got == SecondLevelCovered(ct_raw_text, ct_tokens, ct_swept,
                                     ct_tagger_2[1][1])
       IN /\ got.covered_compound_tokens # <<>>
          /\ ~got.constraints_satisfied

\* The span is one that _get_covered_tokens is to return for the hint sp.
ToBeCovered(sp, span) ==
    IF ~sp.left_strict /\ sp.right_strict
    THEN sp.start <= span.end /\ span.end <= sp.end
    ELSE IF sp.left_strict /\ ~sp.right_strict
    THEN sp.start <= span.start /\ span.start <= sp.end
    ELSE IF sp.left_strict /\ sp.right_strict
    THEN sp.start <= span.start /\ span.end <= sp.end
    ELSE FALSE

\* covered holds, in the order of spans, exactly the spans to be covered.
CoveredAsClaimed(sp, spans, covered) ==
    \E keep \in SUBSET (1..Len(spans)) :
        /\ \A k \in 1..Len(spans) : k \in keep <=> ToBeCovered(sp, spans[k])
        /\ Len(covered) = Cardinality(keep)
        /\ \A n \in 1..Len(covered) :
               \E k \in keep :
                   /\ covered[n] = spans[k]
                   /\ Cardinality({j \in keep : j < k}) = n - 1

LooseLeftMerged ==
    /\ ct_pc = "final" /\ ct_tagger_2 # <<>> /\ ct_tagger_2[1] # <<>>
    /\ LET sp == ct_tagger_2[1][1]
       IN /\ ~sp.left_strict /\ sp.right_strict
          /\ \E n \in 1..Len(ct_swept) :
                 /\ ct_swept[n].start < sp.start
                 /\ ct_swept[n] \notin Range(ct_compound_tokens_lists)

\* ------------------------------------------------------ delete_layer: claims
\* The layers a structure row depends on.
DependsOn(struct) == {struct.parent, struct.enveloping, struct.base} \ {None}

RECURSIVE DependantsFrom(_, _)

\* The layers of the structure that depend on a layer of the set found,
\* directly or transitively.
DependantsFrom(structure, found) ==
    LET more == {structure[k].layer_name : k \in {j \in 1..Len(structure) : DependsOn(structure[j]) \cap found # {}}}
    IN  IF more \subseteq found THEN found ELSE DependantsFrom(structure, found \cup more)

Doomed(structure, layer_name) == DependantsFrom(structure, {layer_name})

LayersOf(structure) == {structure[k].layer_name : k \in 1..Len(structure)}

DroppedOnce(dropped, layers) ==
    /\ {dropped[k] : k \in 1..Len(dropped)} = layers
    /\ Len(dropped) = Cardinality(layers)

\* A cascading delete_layer was called on a detached layer of the collection.
CascadeCalled ==
    /\ pg_pc = "done"
    /\ pg_call.op = "delete_layer"
    /\ pg_call.cascade
    /\ has_layer(pg_before.structure, pg_call.layer_name)
    /\ StructOf(pg_before.structure, pg_call.layer_name).detached
    /\ \A n \in Doomed(pg_before.structure, pg_call.layer_name) : StructOf(pg_before.structure, n).detached

CascadeDone ==
    LET doomed == Doomed(pg_before.structure, pg_call.layer_name)
    IN  /\ pg_error = None
        /\ LayersOf(pg_db.structure) = LayersOf(pg_before.structure) \ doomed
        /\ LayersOf(pg_structure) = LayersOf(pg_db.structure)
        /\ pg_db.tables = pg_before.tables \ doomed
        /\ DroppedOnce(pg_dropped, doomed)

\* C27: delete_layer(layer_name, cascade=True) on a detached layer whose
\* dependants are all detached completes without error and removes from the
\* structure, and drops the table of, the layer and every layer depending on
\* it directly or transitively, each exactly once, for every dependency graph.
C27_CascadeDeletesAll == CascadeCalled => CascadeDone

\* No doomed layer depends on more than one doomed layer: every dependant is
\* reached from the deleted layer by one path only.
SinglePaths ==
    \A n \in Doomed(pg_before.structure, pg_call.layer_name) :
        Cardinality(DependsOn(StructOf(pg_before.structure, n))
                        \cap Doomed(pg_before.structure, pg_call.layer_name)) <= 1

\* The cascade does complete as stated when every dependant is reached by
\* one path only.
CascadeDeletesSinglePaths == CascadeCalled /\ SinglePaths => CascadeDone

\* Reached: the cascade has dropped layers and then raised, the layer asked
\* for still being in the structure with its table.
CascadeRaisedHalfway ==
    /\ CascadeCalled
    /\ pg_error = "ValueError"
    /\ pg_dropped # <<>>
    /\ has_layer(pg_db.structure, pg_call.layer_name)
    /\ pg_call.layer_name \in pg_db.tables

\* Reached: a cascade over a dependant with two paths that completes, the
\* structure listing the dependants in the other order.
CascadeTwoPathsDone == CascadeCalled /\ ~SinglePaths /\ CascadeDone

\* ------------------------------------------------------ create_layer: claims
CreateCalled == pg_pc = "done" /\ pg_call.op = "create_layer"

CreateRaised == CreateCalled /\ pg_error # None

CollectionAsBefore ==
    /\ pg_db = pg_before
    /\ pg_structure = pg_before.structure

\* C28: when create_layer raises while creating or filling a layer, the
\* collection is left as it was before the call: no table, no rows and no
\* structure entry of the layer are added, and the rows still in the insert
\* buffer are not written.
C28_FailedCreateLeavesNothing == CreateRaised => CollectionAsBefore

\* The collection is left as it was when the exception comes from the checks
\* made before anything is executed (lines 829-842).
RejectedCreateLeavesNothing ==
    CreateRaised /\ pg_error = "PgCollectionException" => CollectionAsBefore

\* The limit that no row of a call reaches: no flush before the block ends.
NeverReached ==
    get_query_length(layer_columns) + (MaxPgRows + 1) * get_query_length(LayerValues(0))

\* Reached: the row mapper failed on the first row of a new layer, and the
\* table of the layer exists, without a structure entry.
FailedCreateLeftTable ==
    /\ CreateRaised
    /\ pg_error = "RowMapperError"
    /\ pg_call.mode = "new"
    /\ pg_call.fail_at = 1
    /\ pg_call.layer_name \in pg_db.tables \ pg_before.tables
    /\ ~has_layer(pg_db.structure, pg_call.layer_name)

\* Reached: the row mapper failed on a later row while the earlier rows were
\* in the buffer, and these rows are in the table, the layer in the structure.
BufferedRowsWritten ==
    /\ CreateRaised
    /\ pg_error = "RowMapperError"
    /\ pg_call.mode = "new"
    /\ pg_call.fail_at > 1
    /\ pg_call.query_length_limit = NeverReached
    /\ Len(pg_db.rows[pg_call.layer_name]) = pg_call.fail_at - 1
    /\ has_layer(pg_db.structure, pg_call.layer_name)
    /\ ~has_layer(pg_before.structure, pg_call.layer_name)

\* Every layer table belongs to a structure entry and every detached layer of
\* the structure has its table.
TablesMatchStructure(db) ==
    \A n \in PgLayerNames :
        n \in db.tables <=> (has_layer(db.structure, n) /\ StructOf(db.structure, n).detached)

CreateReturned ==
    /\ CreateCalled
    /\ pg_error = None
    /\ pg_call.mode \in {"new", "overwrite"}

\* C29: after create_layer returns normally with mode 'new' or 'overwrite',
\* has_layer(layer_name) is true whenever the layer table exists, for every
\* data iterator, so that a layer table exists exactly when the structure has
\* an entry for the layer.
C29_CreatedLayerIsRegistered ==
    CreateReturned =>
        /\ pg_call.layer_name \in pg_db.tables => has_layer(pg_structure, pg_call.layer_name)
        /\ TablesMatchStructure(pg_db)

\* The created layer is registered when the data iterator yields a row.
CreatedLayerWithRowsIsRegistered ==
    CreateReturned /\ pg_call.rows > 0 =>
        /\ pg_call.layer_name \in pg_db.tables
        /\ has_layer(pg_structure, pg_call.layer_name)
        /\ TablesMatchStructure(pg_db)

\* Reached: create_layer has returned from an empty data iterator, and the
\* table it created has no structure entry.
CreatedTableUnregistered ==
    /\ CreateReturned
    /\ pg_call.rows = 0
    /\ pg_call.layer_name \in pg_db.tables
    /\ ~has_layer(pg_structure, pg_call.layer_name)
    /\ TablesMatchStructure(pg_before)

\* Reached: create_layer has returned after writing rows, the layer
\* registered and its table filled.
CreatedLayerFilled ==
    /\ CreateReturned
    /\ pg_call.rows > 0
    /\ Len(pg_db.rows[pg_call.layer_name]) = pg_call.rows
    /\ has_layer(pg_structure, pg_call.layer_name)

\* ------------------------------------------------------------ insert: claims
RECURSIVE RowsLength(_)

\* The query length of the rows of a buffer, counted row by row.
RowsLength(rows) ==
    IF rows = <<>> THEN 0 ELSE get_query_length(Head(rows)) + RowsLength(Tail(rows))

\* The call of the insert function with a text, from the current state.
Called(text) == wrap_buffered_insert(BlockState, text, bi_buffer_size, bi_query_length_limit)

\* What the claim says of a call that returns: it flushes exactly when the
\* buffer with the new row holds buffer_size rows or the length accumulated
\* since the last flush reaches query_length_limit; a flush writes the
\* buffered rows and the new one in order, otherwise the row is buffered.
FlushesWhenDue(text) ==
    LET called == Called(text)
        due == \/ Len(bi_buffer) + 1 >= bi_buffer_size
               \/ RowsLength(bi_buffer) + get_query_length(InsertRow(text)) >= bi_query_length_limit
    IN  called.error = None =>
            /\ called.flushed <=> due
            /\ due => called.table = bi_table \o bi_buffer \o <<InsertRow(text)>> /\ called.buffer = <<>>
            /\ ~due => called.table = bi_table /\ called.buffer = Append(bi_buffer, InsertRow(text))

\* C30: a call of the insert function flushes the buffer exactly when, after
\* appending its row, the buffer holds at least buffer_size rows or the
\* accumulated query length has reached query_length_limit; and when the
\* with-block exits, normally or through an exception, every row passed to
\* the insert function has been written to the collection table exactly
\* once, in call order, and the buffer is empty.
C30_InsertBlockWritesAll ==
    /\ bi_pc = "block" => \A text \in InsertTexts(bi_calls + 1) : FlushesWhenDue(text)
    /\ bi_pc = "block" /\ bi_flushed = <<FALSE>> /\ bi_exception = None => bi_buffer # <<>>
    /\ bi_pc = "block" /\ bi_flushed = <<TRUE>> => bi_buffer = <<>> /\ bi_table = bi_passed
    /\ bi_pc = "block" => bi_table \o bi_buffer = bi_passed
    /\ bi_pc = "exited" => bi_table = bi_passed /\ bi_buffer = <<>>

\* Reached: a block was left through an exception after a call had flushed
\* on the query length and a later call had left its row in the buffer; all
\* rows are in the table.
C30_Witness ==
    /\ bi_pc = "exited"
    /\ bi_exception # None
    /\ bi_flushed = <<FALSE>>
    /\ Len(bi_passed) = MaxInsertCalls
    /\ bi_buffer_size > MaxInsertCalls
    /\ bi_query_length_limit = MaxInsertChars + 2
    /\ bi_table = bi_passed

\* Reached: a call has flushed because the buffer held buffer_size rows.
FlushedOnSize ==
    /\ bi_pc = "block"
    /\ bi_flushed = <<TRUE>>
    /\ bi_buffer_size = 2
    /\ Len(bi_table) = 2
    /\ bi_query_length_limit > RowsLength(bi_table)

====
